---- MODULE Spec2Model ----
(***************************************************************************)
(* The terminal multiplexing core of the startup manager:                   *)
(* src/src/lib/TerminalServer.ts.  A registry of PTY sessions, the viewer   *)
(* sockets of the /terminal namespace, and the PTY callbacks.               *)
(*                                                                          *)
(* Node runs every handler to completion on one event loop, so each handler *)
(* and each PTY callback is one atomic action.                              *)
(*                                                                          *)
(* With it: the handshakes and short-lived tokens of WebSocketServer.ts     *)
(* (SpecAuth), and one supervised program of Program.ts with the screen     *)
(* session and process table of its host (SpecProgram).                     *)
(***************************************************************************)
EXTENDS Integers, Sequences, FiniteSets, TLC

\* ---- bounds of the model -------------------------------------------------
MaxSockets == 2
MaxTerminals == 2
MaxOutput == 1
MaxAttach == 2
MaxStream == 3
MaxChunks == 1002
MaxDetach == 1

\* ---- program constants ---------------------------------------------------
BufferCap == 1000

Sockets == 1..MaxSockets
ScreenNames == {"", "work"}
Shells == {"", "bash", "rm -rf /"}
Banner == "[connected]"
ExitLine == "[exited]"

VARIABLES
    sockets,              \* socket id -> "new" | "connected" | "disconnected"
    terminals,            \* keys of the terminals Map (the registry)
    inst,                 \* every TerminalInstance object ever built, by id
    socketToTerminalMap,  \* socket id -> terminal id (partial)
    recv,                 \* per socket: the events delivered to the client
    listChanged,          \* number of terminalListChanged broadcasts
    produced,             \* history: per pty, the chunks it emitted
    closeReq,             \* history: ids closeTerminal was called with
    attachPoint,          \* history: <<socket, terminal>> -> state at last attach
    attachCount,          \* number of attach requests handled
    removals,             \* history: per id, the Map.delete calls that removed it
    detachLog,            \* history: direct removeClientFromTerminal calls
    lastAttach,           \* history: socket and session id of the last attach request
    rpcSockets,           \* sockets of the programs namespace, by id
    authTokens,           \* WebSocketServer.authTokens, in push order
    issued,               \* number of tokens uuidv4 has produced
    now,                  \* the clock new Date() reads, in minutes
    webSocketServer,      \* TerminalServer.webSocketServer is set (not null)
    handshake,            \* history: per socket, what its handshake presented
    ptyInput,             \* history: the input events, whether the pty was written
                          \* and whether the sender was a member of the session
    config,               \* the ProgramConfig the Program was built from
    program,              \* the Program object's fields
    os,                   \* the host: the screen session and the process in it
    call,                 \* the Program method in progress and its position
    server,               \* the server process: "up" | "drained" | "exited"
    queries,              \* foreground-name queries of the poller in flight
    polls,                \* number of poller ticks
    lastQuery,            \* history: the last query that came back
    thrown,               \* history: sockets whose emit threw at the last output
    refreshLog,           \* history: the refresh requests received
    manager,              \* ProgramManager.programs and the ids it has made
    writes,               \* writeFile calls of savePrograms in flight
    disk,                 \* the program list in the configuration file
    rpcLog,               \* history: the rpc requests and the callbacks they got
    spawns,               \* history: the create calls whose pty.spawn failed
    pass,                 \* a second Program method in progress, waiting its turn
    tabsManager,          \* the client's TabsManagerClass: tabs and activeTabId
    terminalManager       \* the client's TerminalManagerClass: instances

registryVars == <<sockets, terminals, inst, socketToTerminalMap, recv, listChanged,
                  produced, closeReq, attachPoint, attachCount, removals, detachLog,
                  lastAttach>>
tokenVars == <<rpcSockets, authTokens, issued, now, webSocketServer>>
programVars == <<config, program, os, call>>
pollerVars == <<queries, polls, lastQuery>>
managerVars == <<manager, writes, disk, rpcLog>>
clientVars == <<tabsManager, terminalManager>>
moreVars == <<spawns, pass, clientVars>>
laterVars == <<server, pollerVars, thrown, refreshLog, managerVars, moreVars>>
restVars == <<tokenVars, handshake, ptyInput, programVars, laterVars>>
vars == <<registryVars, restVars>>

\* ---- Map helpers ---------------------------------------------------------
EmptyMap == [x \in {} |-> x]
Put(f, k, v) == [x \in (DOMAIN f) \cup {k} |-> IF x = k THEN v ELSE f[x]]
Del(f, ks) == [x \in (DOMAIN f) \ ks |-> f[x]]
Values(f) == {f[k] : k \in DOMAIN f}

\* buffer.join('')
RECURSIVE Join(_)
Join(buf) == IF buf = <<>> THEN "" ELSE Head(buf) \o Join(Tail(buf))

\* the replay an attaching socket is sent: one output event, the joined buffer
replayMutSkipOldest(buf) == IF buf = <<>> THEN "" ELSE Join(Tail(buf))
replay(buf) == Join(buf)

\* The k-th chunk pty t emits.  The content of PTY output is free; the chunks
\* are labelled by pty and position so that loss, duplication and reordering
\* all show in the data.
Chunk(t, k) == ToString(t) \o "." \o ToString(k) \o ";"

\* ---- messages ------------------------------------------------------------
\* term is the session the event stems from (0: none); the wire event
\* itself carries no session id.
Msg(ev, t, data) == [ev |-> ev, term |-> t, data |-> data]

\* socket.emit: delivered only while the socket is connected
Emit(r, s, m) == IF sockets[s] = "connected" THEN [r EXCEPT ![s] = Append(@, m)] ELSE r

RECURSIVE EmitAll(_, _, _)
EmitAll(r, ss, m) ==
    IF ss = {} THEN r
    ELSE LET s == CHOOSE x \in ss : TRUE
         IN EmitAll(Emit(r, s, m), ss \ {s}, m)

\* connections.forEach((socket) => socket.emit(...)): one emit per entry
RECURSIVE EmitEach(_, _, _)
EmitEach(r, conns, m) ==
    IF DOMAIN conns = {} THEN r
    ELSE LET k == CHOOSE x \in DOMAIN conns : TRUE
         IN EmitEach(Emit(r, conns[k], m), Del(conns, {k}), m)

\* uuidv4(): an id no instance was ever given
uuidv4 == Cardinality(DOMAIN inst) + 1

\* command selection of createTerminal / createOrAttachTerminal
commandFor(screenName, shell) ==
    IF screenName # "" THEN <<"screen", "-S", screenName>>
    ELSE IF shell # "" THEN <<shell>>
    ELSE <<"bash">>

NewInstance(id, kind, conns, screenName, shell) ==
    [id |-> id, kind |-> kind, connections |-> conns, buffer |-> <<>>,
     initialCommand |-> commandFor(screenName, shell), screenName |-> screenName,
     alive |-> TRUE, killed |-> FALSE, programName |-> ""]

\* ptyProcess.onData: buffer.push(data); trim to the last BufferCap chunks
onDataMutNoTrim(buf, data) == Append(buf, data)
onData(buf, data) ==
    LET b == Append(buf, data)
    IN IF Len(b) > BufferCap THEN SubSeq(b, Len(b) - BufferCap + 1, Len(b)) ELSE b

\* broadcastOutput(terminalId, data)
broadcastOutputMutFirstOnly(r, t, data) ==
    IF t \in terminals /\ Values(inst[t].connections) # {}
    THEN Emit(r, CHOOSE s \in Values(inst[t].connections) : TRUE, Msg("output", t, data))
    ELSE r
broadcastOutput(r, t, data) ==
    IF t \in terminals
    THEN EmitEach(r, inst[t].connections, Msg("output", t, data))
    ELSE r

\* listTerminals()
listTerminals ==
    {[id |-> inst[t].id, screenName |-> inst[t].screenName,
      connectionCount |-> Cardinality(DOMAIN inst[t].connections)] : t \in terminals}

\* Sockets of the programs namespace (WebSocketServer.ts)
RpcSockets == {"a", "b"}

\* ---- Program.ts: the fields of one supervised program --------------------
\* ProgramConfig.stopMethod is optional; "" is the absent value.
StopMethods == {"SIGINT", "SIGHUP", "CTRL_C"}
Configs == [stopMethod : StopMethods \cup {""}]

\* constructor(config, configPath); pid 0 is the undefined pid.  notified is
\* history: the states the status-change callback was called with since the
\* method in progress was entered.
ProgramMutDefaultSigint(cfg) ==
    [stopMethod |-> IF cfg.stopMethod = "" THEN "SIGINT" ELSE cfg.stopMethod,
     pid |-> 0, status |-> "stopped", screenActive |-> FALSE, notified |-> <<>>]
Program(cfg) ==
    [stopMethod |-> IF cfg.stopMethod = "" THEN "SIGHUP" ELSE cfg.stopMethod,
     pid |-> 0, status |-> "stopped", screenActive |-> FALSE, notified |-> <<>>]

\* No method of the program is running.
NoCall == [method |-> "", pc |-> "done", after |-> "", ret |-> "",
           pre |-> Program([stopMethod |-> ""]),
           sent |-> <<>>, raised |-> "", read |-> "none"]

\* new TabsManagerClass(): the list tab, active.  closedActive is history:
\* closeTab has removed a tab that was the active one.
ListTabId == "list"
TabsManagerClass ==
    [tabs |-> <<[id |-> ListTabId, type |-> "list", active |-> TRUE,
                 closable |-> FALSE, terminal |-> 0]>>,
     activeTabId |-> ListTabId,
     closedActive |-> FALSE]

\* new TerminalManagerClass(client, tabsManager): instances holds the keys of
\* the instances Map in insertion order; fetched is the answer to a
\* listTerminals call on its way.  applied and removed are history: the list
\* the last reconciliation worked on, and the ids removeInstance deleted.
TerminalManagerClass ==
    [instances |-> <<>>, fetched |-> <<>>, applied |-> <<>>, removed |-> {}]

\* The server process is up, its poller has not ticked, the program manager
\* is built and has loaded nothing, and no request has come in.
InitLater ==
    /\ server = "up"
    /\ queries = {}
    /\ polls = 0
    /\ lastQuery = <<>>
    /\ thrown = {}
    /\ refreshLog = <<>>
    /\ manager = [programs |-> EmptyMap, made |-> 0]
    /\ writes = <<>>
    /\ disk = EmptyMap
    /\ rpcLog = <<>>
    /\ spawns = <<>>
    /\ pass = NoCall
    /\ tabsManager = TabsManagerClass
    /\ terminalManager = TerminalManagerClass

\* The state after both servers are constructed: no token issued, no token
\* validator attached to the terminal server, one program built from a
\* configuration without stopMethod and not yet started.
InitRest ==
    /\ rpcSockets = [m \in RpcSockets |-> "new"]
    /\ authTokens = <<>>
    /\ issued = 0
    /\ now = 0
    /\ webSocketServer = FALSE
    /\ handshake = EmptyMap
    /\ ptyInput = <<>>
    /\ config = [stopMethod |-> ""]
    /\ program = Program(config)
    /\ os = [screen |-> FALSE, proc |-> 0]
    /\ call = NoCall
    /\ InitLater

\* new TerminalServer(namespace): empty registry, no socket yet
InitRegistry ==
    /\ sockets = [s \in Sockets |-> "new"]
    /\ terminals = {}
    /\ inst = EmptyMap
    /\ socketToTerminalMap = EmptyMap
    /\ recv = [s \in Sockets |-> <<>>]
    /\ listChanged = 0
    /\ produced = EmptyMap
    /\ closeReq = {}
    /\ attachPoint = EmptyMap
    /\ attachCount = 0
    /\ removals = EmptyMap
    /\ detachLog = <<>>
    /\ lastAttach = <<>>

Init == InitRegistry /\ InitRest

\* io.on('connection'): the greeting is the first output event.  Socket ids
\* are handed out in order, as fresh names.
connection(s) ==
    /\ sockets[s] = "new"
    /\ \A x \in Sockets : x < s => sockets[x] # "new"
    /\ sockets' = [sockets EXCEPT ![s] = "connected"]
    /\ recv' = [recv EXCEPT ![s] = Append(@, Msg("output", 0, Banner))]
    /\ UNCHANGED <<terminals, inst, socketToTerminalMap, listChanged, produced,
                   closeReq, attachPoint, attachCount, removals, detachLog, lastAttach,
                   tokenVars, ptyInput, programVars, laterVars>>

Connect(s) == connection(s) /\ UNCHANGED handshake

\* createTerminal({screenName, shell})
\* lines 43-71: what it does once pty.spawn has returned
createTerminalSpawned(screenName, shell) ==
    /\ Cardinality(DOMAIN inst) < MaxTerminals
    /\ LET id == uuidv4
       IN /\ inst' = Put(inst, id, NewInstance(id, "rpc", EmptyMap, screenName, shell))
          /\ terminals' = terminals \cup {id}
          /\ produced' = Put(produced, id, <<>>)
          /\ removals' = Put(removals, id, 0)
    /\ listChanged' = listChanged + 1
    /\ UNCHANGED <<sockets, socketToTerminalMap, recv, closeReq, attachPoint,
                   attachCount, detachLog, lastAttach>>
createTerminal(screenName, shell) ==
    /\ createTerminalSpawned(screenName, shell)
    /\ UNCHANGED restVars

\* createOrAttachTerminal(socket, data); socket.on('attach') copies data.id
\* into data.terminalId first, so data.terminalId stands for either field.
\* 0 and "" are the absent (falsy) values.
\* lines 246-251: the entries an attach removes first, those under the
\* client id and those of the socket
previousConnectionsMutSameClientId(conns, clientId, s) ==
    {k \in DOMAIN conns : k = clientId}
previousConnections(conns, clientId, s) ==
    {k \in DOMAIN conns : k = clientId \/ conns[k] = s}
\* line 248: the sockets of those entries lose their mapping
displacedSocketsMutNone(conns, gone) == {}
displacedSockets(conns, gone) == {conns[k] : k \in gone}

createOrAttachTerminalMutNotFound(s, data) ==
    /\ recv' = Emit(recv, s, Msg("error", data.terminalId, "not found"))
    /\ UNCHANGED <<inst, terminals, socketToTerminalMap, attachPoint, produced,
                   removals, listChanged>>
createOrAttachTerminal(s, data) ==
    LET clientId == IF data.clientId # 0 THEN data.clientId ELSE s
    IN IF data.terminalId # 0 /\ data.terminalId \in terminals
       THEN \* attach to the existing terminal
            LET t == data.terminalId
                conns == inst[t].connections
                gone == previousConnections(conns, clientId, s)
                goneSockets == displacedSockets(conns, gone)
                r1 == Emit(recv, s, Msg("output", t, replay(inst[t].buffer)))
                r2 == Emit(r1, s, Msg("connected", t, ""))
            IN /\ inst' = [inst EXCEPT ![t].connections = Put(Del(conns, gone), clientId, s)]
               /\ socketToTerminalMap' = Put(Del(socketToTerminalMap, goneSockets), s, t)
               /\ recv' = r2
               /\ attachPoint' = Put(attachPoint, <<s, t>>,
                                     [at |-> Len(recv[s]), buf |-> inst[t].buffer,
                                      n |-> Len(produced[t])])
               /\ UNCHANGED <<terminals, listChanged, produced, removals>>
       ELSE \* create a new terminal
            /\ Cardinality(DOMAIN inst) < MaxTerminals
            /\ LET id == uuidv4
               IN /\ inst' = Put(inst, id,
                                 NewInstance(id, "attach", Put(EmptyMap, clientId, s),
                                             data.screenName, data.shell))
                  /\ terminals' = terminals \cup {id}
                  /\ socketToTerminalMap' = Put(socketToTerminalMap, s, id)
                  /\ produced' = Put(produced, id, <<>>)
                  /\ removals' = Put(removals, id, 0)
                  /\ recv' = Emit(recv, s, Msg("connected", id, ""))
                  /\ attachPoint' = Put(attachPoint, <<s, id>>,
                                        [at |-> Len(recv[s]), buf |-> <<>>, n |-> 0])
            /\ listChanged' = listChanged + 1

\* socket.on('attach').  A request names no id (0), an id the server handed
\* out before, or an id it never handed out (MaxTerminals + 1).
Attach(s, data) ==
    /\ sockets[s] = "connected"
    /\ data.terminalId \in {0, MaxTerminals + 1} \cup DOMAIN inst
    /\ attachCount < MaxAttach
    /\ attachCount' = attachCount + 1
    /\ lastAttach' = [socket |-> s, terminalId |-> data.terminalId]
    /\ createOrAttachTerminal(s, data)
    /\ UNCHANGED <<sockets, closeReq, detachLog, restVars>>

\* ptyProcess.onData of either creation path
onDataStepMutSendOnly(t, data) ==
    /\ inst' = inst
    /\ recv' = broadcastOutput(recv, t, data)
    /\ produced' = [produced EXCEPT ![t] = Append(@, data)]
onDataStep(t, data) ==
    /\ inst' = [inst EXCEPT ![t].buffer = onData(@, data)]
    /\ recv' = broadcastOutput(recv, t, data)
    /\ produced' = [produced EXCEPT ![t] = Append(@, data)]

PtyDataUpTo(t, max) ==
    /\ t \in DOMAIN inst
    /\ inst[t].alive
    /\ Len(produced[t]) < max
    /\ onDataStep(t, Chunk(t, Len(produced[t]) + 1))
    /\ UNCHANGED <<sockets, terminals, socketToTerminalMap, listChanged, closeReq,
                   attachPoint, attachCount, removals, detachLog, lastAttach, restVars>>

\* terminals.delete(id), counting the calls that found the key
deleteTerminal(t) ==
    /\ terminals' = terminals \ {t}
    /\ removals' = IF t \in terminals THEN [removals EXCEPT ![t] = @ + 1] ELSE removals

\* ptyProcess.onExit: the handler createTerminal registers sends the exit
\* line only; the handler createOrAttachTerminal registers also sends
\* terminal_exited to the connections of the instance it closed over.
onExitNotify(r, t) ==
    IF inst[t].kind = "attach"
    THEN EmitAll(r, Values(inst[t].connections), Msg("terminal_exited", t, ""))
    ELSE r

PtyExit(t) ==
    /\ t \in DOMAIN inst
    /\ inst[t].alive
    /\ inst' = [inst EXCEPT ![t].alive = FALSE]
    /\ recv' = onExitNotify(broadcastOutput(recv, t, ExitLine), t)
    /\ deleteTerminal(t)
    /\ listChanged' = listChanged + 1
    /\ UNCHANGED <<sockets, socketToTerminalMap, produced, closeReq, attachPoint,
                   attachCount, detachLog, lastAttach, restVars>>

\* removeClientFromTerminal(socketId, terminalId): touches the connections of
\* a registered terminal and nothing else of the registry.  A socket holds at
\* most one key of a terminal's connections (attach deletes its old entries
\* first), so the one key the loop keeps is every key of that socket.
removeClientFromTerminalMutInverted(s, t) ==
    /\ terminals' = terminals
    /\ IF t \in terminals
       THEN inst' = [inst EXCEPT ![t].connections =
                         Del(@, {k \in DOMAIN @ : @[k] # s})]
       ELSE inst' = inst
removeClientFromTerminalMutCloseEmpty(s, t) ==
    LET left == Del(inst[t].connections,
                    {k \in DOMAIN inst[t].connections : inst[t].connections[k] = s})
    IN IF t \in terminals
       THEN /\ inst' = [inst EXCEPT ![t].connections = left,
                                    ![t].killed = (left = EmptyMap) \/ @]
            /\ terminals' = IF left = EmptyMap THEN terminals \ {t} ELSE terminals
       ELSE /\ inst' = inst
            /\ terminals' = terminals
removeClientFromTerminal(s, t) ==
    /\ terminals' = terminals
    /\ IF t \in terminals
       THEN inst' = [inst EXCEPT ![t].connections =
                         Del(@, {k \in DOMAIN @ : @[k] = s})]
       ELSE inst' = inst

\* socket.on('disconnect')
Disconnect(s) ==
    /\ sockets[s] = "connected"
    /\ sockets' = [sockets EXCEPT ![s] = "disconnected"]
    /\ IF s \in DOMAIN socketToTerminalMap
       THEN removeClientFromTerminal(s, socketToTerminalMap[s])
       ELSE UNCHANGED <<inst, terminals>>
    /\ socketToTerminalMap' = Del(socketToTerminalMap, {s})
    \* the client is gone: its log and attach history go with it
    /\ recv' = [recv EXCEPT ![s] = <<>>]
    /\ attachPoint' = Del(attachPoint, {p \in DOMAIN attachPoint : p[1] = s})
    /\ UNCHANGED <<listChanged, produced, closeReq, attachCount, removals, detachLog,
                   lastAttach, restVars>>

\* closeTerminal(terminalId)
closeNotifyMutNone(r, t) == r
closeNotify(r, t) ==
    EmitAll(r, Values(inst[t].connections), Msg("terminal_closed", t, ""))

closeTerminal(t) ==
    IF t \in terminals
    THEN /\ inst' = [inst EXCEPT ![t].killed = TRUE]
         /\ recv' = closeNotify(recv, t)
         /\ deleteTerminal(t)
         /\ listChanged' = listChanged + 1
    ELSE UNCHANGED <<inst, recv, terminals, removals, listChanged>>

\* closeTerminal called by id from outside the socket handlers
CloseTerminal(t) ==
    /\ t \in DOMAIN inst
    /\ closeTerminal(t)
    /\ closeReq' = closeReq \cup {t}
    /\ UNCHANGED <<sockets, socketToTerminalMap, produced, attachPoint, attachCount,
                   detachLog, lastAttach, restVars>>

\* socket.on('close_terminal')
CloseTerminalEvent(s) ==
    /\ sockets[s] = "connected"
    /\ s \in DOMAIN socketToTerminalMap
    /\ closeTerminal(socketToTerminalMap[s])
    /\ closeReq' = closeReq \cup {socketToTerminalMap[s]}
    /\ UNCHANGED <<sockets, socketToTerminalMap, produced, attachPoint, attachCount,
                   detachLog, lastAttach, restVars>>

\* attach requests naming any session id or none, under the socket's own
\* client id; "" and 0 are absent
AttachData ==
    [terminalId : 0..(MaxTerminals + 1), clientId : {0}, screenName : {""},
     shell : {""}]

\* attach requests that also choose the client id
AttachDataClient ==
    [terminalId : 0..(MaxTerminals + 1), clientId : {0} \cup Sockets,
     screenName : {""}, shell : {""}]

SocketAttach == \E s \in Sockets, d \in AttachData : Attach(s, d)
SocketConnect == \E s \in Sockets : Connect(s)
SocketDisconnect == \E s \in Sockets : Disconnect(s)
SocketCloseTerminal == \E s \in Sockets : CloseTerminalEvent(s)
RpcCreateTerminal == createTerminal("", "")
RpcCloseTerminal == \E t \in 1..MaxTerminals : CloseTerminal(t)
PtyOutput == \E t \in 1..MaxTerminals : PtyDataUpTo(t, MaxOutput)
PtyExited == \E t \in 1..MaxTerminals : PtyExit(t)

Next ==
    \/ SocketConnect
    \/ RpcCreateTerminal
    \/ SocketAttach
    \/ PtyOutput
    \/ PtyExited
    \/ SocketDisconnect
    \/ RpcCloseTerminal
    \/ SocketCloseTerminal

Spec == Init /\ [][Next]_vars

\* ---- one session, a longer output stream ---------------------------------
\* The state after one createTerminal({}) call; the viewers attach to that
\* session while it is registered.
InitStream ==
    /\ sockets = [s \in Sockets |-> "new"]
    /\ terminals = {1}
    /\ inst = Put(EmptyMap, 1, NewInstance(1, "rpc", EmptyMap, "", ""))
    /\ socketToTerminalMap = EmptyMap
    /\ recv = [s \in Sockets |-> <<>>]
    /\ listChanged = 1
    /\ produced = Put(EmptyMap, 1, <<>>)
    /\ closeReq = {}
    /\ attachPoint = EmptyMap
    /\ attachCount = 0
    /\ removals = Put(EmptyMap, 1, 0)
    /\ detachLog = <<>>
    /\ lastAttach = <<>>
    /\ InitRest

StreamAttach ==
    \E s \in Sockets, d \in AttachDataClient :
        /\ d.terminalId \in terminals
        /\ Attach(s, d)
StreamOutput == \E t \in terminals : PtyDataUpTo(t, MaxStream)

NextStream ==
    \/ SocketConnect
    \/ StreamAttach
    \/ StreamOutput
    \/ PtyExited
    \/ SocketDisconnect
    \/ RpcCloseTerminal

SpecStream == InitStream /\ [][NextStream]_vars

\* ---- one session, output past the buffer cap ------------------------------
BufferCreate == inst = EmptyMap /\ createTerminal("", "")
BufferAttach ==
    /\ inst = EmptyMap
    /\ Attach(1, [terminalId |-> 0, clientId |-> 0, screenName |-> "", shell |-> ""])
BufferOutput == \E t \in terminals : PtyDataUpTo(t, MaxChunks)

NextBuffer ==
    \/ Connect(1)
    \/ BufferCreate
    \/ BufferAttach
    \/ BufferOutput

SpecBuffer == Init /\ [][NextBuffer]_vars

\* ---- the command a session is spawned with --------------------------------
CommandCreate == \E n \in ScreenNames, sh \in Shells : createTerminal(n, sh)
CommandAttach ==
    \E s \in Sockets, n \in ScreenNames, sh \in Shells :
        Attach(s, [terminalId |-> 0, clientId |-> 0, screenName |-> n, shell |-> sh])

NextCommands ==
    \/ SocketConnect
    \/ CommandCreate
    \/ CommandAttach
    \/ PtyExited
    \/ SocketDisconnect
    \/ RpcCloseTerminal

SpecCommands == Init /\ [][NextCommands]_vars

\* ---- removeClientFromTerminal applied to any socket and terminal ----------
\* The namespace registers no detach event; the routine behind it is called
\* here with every pair of arguments.
DetachCall(s, t) ==
    /\ sockets[s] = "connected"
    /\ t \in DOMAIN inst
    /\ Len(detachLog) < MaxDetach
    /\ detachLog' = Append(detachLog, [socket |-> s, terminal |-> t])
    /\ removeClientFromTerminal(s, t)
    /\ UNCHANGED <<sockets, socketToTerminalMap, recv, listChanged, produced, closeReq,
                   attachPoint, attachCount, removals, lastAttach, restVars>>
Detach == \E s \in Sockets, t \in 1..MaxTerminals : DetachCall(s, t)

NextDetach ==
    \/ SocketConnect
    \/ RpcCreateTerminal
    \/ SocketAttach
    \/ PtyExited
    \/ SocketDisconnect
    \/ RpcCloseTerminal
    \/ Detach

SpecDetach == Init /\ [][NextDetach]_vars

\* ---- Handshakes and tokens (WebSocketServer.ts, TerminalServer.ts) --------
MaxTokens == 1
MaxTime == 6
MaxInput == 1
TokenTtl == 5
AuthUsername == "admin"
AuthPassword == "password"
Credentials == [username : {"", AuthUsername, "eve"},
                password : {"", AuthPassword, "guess"}]

\* io.use of the programs namespace: next() or next(new Error(...))
credentialsAccepted(auth) ==
    ~(auth.username = "" \/ auth.password = ""
      \/ auth.username # AuthUsername \/ auth.password # AuthPassword)

RpcHandshake(m, auth) ==
    /\ rpcSockets[m] = "new"
    /\ rpcSockets' = [rpcSockets EXCEPT ![m] =
                         IF credentialsAccepted(auth) THEN "connected" ELSE "refused"]
    /\ UNCHANGED <<registryVars, authTokens, issued, now, webSocketServer,
                   handshake, ptyInput, programVars, laterVars>>

\* handleRPC 'generateTerminalToken' -> generateAuthToken(socketId)
storeToken(m) ==
    /\ issued' = issued + 1
    /\ authTokens' = Append(authTokens, [token |-> issued + 1, socketId |-> m,
                                         createdAt |-> now,
                                         expiresAt |-> now + TokenTtl])
generateAuthToken(m) ==
    /\ rpcSockets[m] = "connected"
    /\ issued < MaxTokens
    /\ storeToken(m)
    /\ UNCHANGED <<registryVars, rpcSockets, now, webSocketServer, handshake,
                   ptyInput, programVars, laterVars>>

\* line 100: the tokens left when socket m disconnects
tokensOfOthers(tokens, m) == SelectSeq(tokens, LAMBDA t : t.socketId # m)

\* socket.on('disconnect') of the programs namespace
RpcDisconnect(m) ==
    /\ rpcSockets[m] = "connected"
    /\ rpcSockets' = [rpcSockets EXCEPT ![m] = "disconnected"]
    /\ authTokens' = tokensOfOthers(authTokens, m)
    /\ UNCHANGED <<registryVars, issued, now, webSocketServer, handshake,
                   ptyInput, programVars, laterVars>>

\* setInterval(() => this.cleanExpiredTokens(), 60000)
cleanExpiredTokens ==
    /\ \E i \in 1..Len(authTokens) : ~(authTokens[i].expiresAt > now)
    /\ authTokens' = SelectSeq(authTokens, LAMBDA t : t.expiresAt > now)
    /\ UNCHANGED <<registryVars, rpcSockets, issued, now, webSocketServer,
                   handshake, ptyInput, programVars, laterVars>>

\* time passes
Tick ==
    /\ now < MaxTime
    /\ now' = now + 1
    /\ UNCHANGED <<registryVars, rpcSockets, authTokens, issued, webSocketServer,
                   handshake, ptyInput, programVars, laterVars>>

\* validateAuthToken(token): find() takes the first entry with that token
validateAuthTokenMutNoExpiry(tokens, token, time) ==
    \E i \in 1..Len(tokens) : tokens[i].token = token
validateAuthToken(tokens, token, time) ==
    LET found == {i \in 1..Len(tokens) : tokens[i].token = token}
    IN IF found = {} THEN FALSE
       ELSE LET authToken == tokens[CHOOSE i \in found : \A j \in found : i <= j]
            IN ~(authToken.expiresAt < time)

\* terminalServer.setWebSocketServer(wsServer), called while the servers are
\* being set up, or never
setWebSocketServer ==
    /\ ~webSocketServer
    /\ \A s \in Sockets : sockets[s] = "new"
    /\ webSocketServer' = TRUE
    /\ UNCHANGED <<registryVars, rpcSockets, authTokens, issued, now, handshake,
                   ptyInput, programVars, laterVars>>

\* io.use of the terminal namespace: the Error passed to next(), "" for next()
ErrNoToken == "Authentication failed: No token provided"
ErrNoValidator == "Server configuration error"
ErrInvalid == "Authentication failed: Invalid or expired token"
terminalAuth(token) ==
    IF token = 0 THEN ErrNoToken
    ELSE IF ~webSocketServer THEN ErrNoValidator
    ELSE IF ~validateAuthToken(authTokens, token, now) THEN ErrInvalid
    ELSE ""

\* A connection attempt on the terminal namespace.  token 0 is a handshake
\* without token; the connection handler runs only after next().
TerminalHandshake(s, token) ==
    /\ sockets[s] = "new"
    /\ handshake' = Put(handshake, s,
           [token |-> token,
            issued |-> \E i \in 1..Len(authTokens) : authTokens[i].token = token,
            unexpired |-> \E i \in 1..Len(authTokens) :
                             /\ authTokens[i].token = token
                             /\ now <= authTokens[i].expiresAt])
    /\ IF terminalAuth(token) = ""
       THEN connection(s)
       ELSE /\ \A x \in Sockets : x < s => sockets[x] # "new"
            /\ sockets' = [sockets EXCEPT ![s] = "refused"]
            /\ recv' = [recv EXCEPT ![s] = <<Msg("connect_error", 0, terminalAuth(token))>>]
            /\ UNCHANGED <<terminals, inst, socketToTerminalMap, listChanged,
                           produced, closeReq, attachPoint, attachCount, removals,
                           detachLog, lastAttach, tokenVars, ptyInput, programVars, laterVars>>

\* socket.on('input') and handleInput(terminalId, data)
Input(s, data) ==
    /\ sockets[s] = "connected"
    /\ Len(ptyInput) < MaxInput
    /\ IF s \in DOMAIN socketToTerminalMap
       THEN /\ ptyInput' = Append(ptyInput,
                   [socket |-> s, terminal |-> socketToTerminalMap[s], data |-> data,
                    written |-> socketToTerminalMap[s] \in terminals,
                    member |-> /\ socketToTerminalMap[s] \in terminals
                               /\ s \in Values(inst[socketToTerminalMap[s]].connections)])
            /\ recv' = recv
       ELSE /\ recv' = Emit(recv, s, Msg("error", 0, "No active terminal found"))
            /\ ptyInput' = Append(ptyInput,
                   [socket |-> s, terminal |-> 0, data |-> data, written |-> FALSE,
                    member |-> FALSE])
    /\ UNCHANGED <<sockets, terminals, inst, socketToTerminalMap, listChanged,
                   produced, closeReq, attachPoint, attachCount, removals,
                   detachLog, lastAttach, tokenVars, handshake, programVars, laterVars>>

AuthRpcHandshake == \E m \in RpcSockets, auth \in Credentials : RpcHandshake(m, auth)
AuthGenerateToken == \E m \in RpcSockets : generateAuthToken(m)
AuthRpcDisconnect == \E m \in RpcSockets : RpcDisconnect(m)
AuthTerminalHandshake == \E s \in Sockets, token \in 0..MaxTokens : TerminalHandshake(s, token)
\* an attach request without id: the socket gets a session of its own
AuthAttach ==
    \E s \in Sockets :
        Attach(s, [terminalId |-> 0, clientId |-> 0, screenName |-> "", shell |-> ""])
AuthInput == \E s \in Sockets : Input(s, "ls")

NextAuth ==
    \/ setWebSocketServer
    \/ AuthRpcHandshake
    \/ AuthGenerateToken
    \/ AuthRpcDisconnect
    \/ cleanExpiredTokens
    \/ Tick
    \/ AuthTerminalHandshake
    \/ AuthAttach
    \/ AuthInput
    \/ SocketCloseTerminal
    \/ SocketDisconnect

SpecAuth == Init /\ [][NextAuth]_vars

\* ---- session creation when the spawn fails ---------------------------------
MaxSpawnFailures == 1

\* How pty.spawn fails.  "throw": the pty or the fork cannot be had and
\* pty.spawn throws.  "exec": the fork succeeds and the exec in the child
\* fails (no such file, permission denied); pty.spawn returns a pty whose
\* process prints the error and exits, which onExit reports later.
SpawnFailures == {"throw", "exec"}

\* what the caller of the create call gets
createResult(failure) == IF failure = "throw" THEN "throw" ELSE "return"

otherVarsOfSpawn == <<tokenVars, handshake, ptyInput, programVars, server, pollerVars,
                      thrown, refreshLog, managerVars, pass, clientVars>>

\* createTerminal({screenName, shell}) whose pty.spawn fails
createTerminalSpawnFails(screenName, shell, failure) ==
    /\ Len(spawns) < MaxSpawnFailures
    /\ Cardinality(DOMAIN inst) < MaxTerminals
    /\ spawns' = Append(spawns, [path |-> "rpc", id |-> uuidv4, failure |-> failure,
                                 result |-> createResult(failure)])
    /\ IF failure = "throw"
       THEN UNCHANGED registryVars
       ELSE createTerminalSpawned(screenName, shell)
    /\ UNCHANGED otherVarsOfSpawn

\* socket.on('attach') naming no registered session, the pty.spawn of
\* createOrAttachTerminal failing; an exception leaves the listener uncaught
AttachSpawnFails(s, data, failure) ==
    /\ sockets[s] = "connected"
    /\ data.terminalId \in {0, MaxTerminals + 1} \cup DOMAIN inst
    /\ ~(data.terminalId # 0 /\ data.terminalId \in terminals)
    /\ attachCount < MaxAttach
    /\ Len(spawns) < MaxSpawnFailures
    /\ Cardinality(DOMAIN inst) < MaxTerminals
    /\ spawns' = Append(spawns, [path |-> "attach", id |-> uuidv4, failure |-> failure,
                                 result |-> createResult(failure)])
    /\ attachCount' = attachCount + 1
    /\ lastAttach' = [socket |-> s, terminalId |-> data.terminalId]
    /\ IF failure = "throw"
       THEN UNCHANGED <<inst, terminals, socketToTerminalMap, recv, attachPoint,
                        produced, removals, listChanged>>
       ELSE createOrAttachTerminal(s, data)
    /\ UNCHANGED <<sockets, closeReq, detachLog, otherVarsOfSpawn>>

RpcCreateFails == \E failure \in SpawnFailures : createTerminalSpawnFails("", "", failure)
SocketAttachFails ==
    \E s \in Sockets, d \in AttachData, failure \in SpawnFailures :
        AttachSpawnFails(s, d, failure)

NextSpawn ==
    \/ SocketConnect
    \/ RpcCreateTerminal
    \/ RpcCreateFails
    \/ SocketAttach
    \/ SocketAttachFails
    \/ PtyExited
    \/ SocketDisconnect
    \/ RpcCloseTerminal

SpecSpawn == Init /\ [][NextSpawn]_vars

\* ---- output events in which an emit throws ---------------------------------
\* broadcastOutput(terminalId, data) with its try/catch: the emit to each
\* socket of throwing throws, is caught and logged, and the loop goes on
broadcastOutputCatchMutAbort(r, t, data, throwing) ==
    IF t \in terminals /\ Values(inst[t].connections) \cap throwing = {}
    THEN EmitEach(r, inst[t].connections, Msg("output", t, data))
    ELSE r
broadcastOutputCatch(r, t, data, throwing) ==
    IF t \in terminals
    THEN LET conns == inst[t].connections
         IN EmitEach(r, Del(conns, {k \in DOMAIN conns : conns[k] \in throwing}),
                     Msg("output", t, data))
    ELSE r

\* ptyProcess.onData, the emits to the sockets of throwing failing
PtyDataThrowing(t, throwing) ==
    /\ t \in DOMAIN inst
    /\ inst[t].alive
    /\ Len(produced[t]) < MaxStream
    /\ throwing \subseteq Values(inst[t].connections)
    /\ LET data == Chunk(t, Len(produced[t]) + 1)
       IN /\ inst' = [inst EXCEPT ![t].buffer = onData(@, data)]
          /\ recv' = broadcastOutputCatch(recv, t, data, throwing)
          /\ produced' = [produced EXCEPT ![t] = Append(@, data)]
    /\ thrown' = throwing
    /\ UNCHANGED <<sockets, terminals, socketToTerminalMap, listChanged, closeReq,
                   attachPoint, attachCount, removals, detachLog, lastAttach,
                   tokenVars, handshake, ptyInput, programVars, server, pollerVars,
                   refreshLog, managerVars, moreVars>>

FaultyOutput == \E t \in 1..MaxTerminals, throwing \in SUBSET Sockets : PtyDataThrowing(t, throwing)

NextFaults ==
    \/ SocketConnect
    \/ StreamAttach
    \/ FaultyOutput
    \/ PtyExited
    \/ SocketDisconnect
    \/ RpcCloseTerminal

SpecFaults == InitStream /\ [][NextFaults]_vars

\* ---- refresh requests ------------------------------------------------------
MaxRefresh == 1

\* The client emits 'refresh' with {id}. The connection handler registers
\* attach, input, close_terminal and disconnect only, so the event has no
\* listener on the server and is dropped; refreshLog records that it came.
Refresh(s, t) ==
    /\ sockets[s] = "connected"
    /\ Len(refreshLog) < MaxRefresh
    /\ refreshLog' = Append(refreshLog, [socket |-> s, id |-> t])
    /\ UNCHANGED <<registryVars, tokenVars, handshake, ptyInput, programVars,
                   server, pollerVars, thrown, managerVars, moreVars>>

RefreshRequest == \E s \in Sockets, t \in 1..MaxTerminals : Refresh(s, t)

NextRefresh ==
    \/ SocketConnect
    \/ StreamAttach
    \/ StreamOutput
    \/ RefreshRequest
    \/ PtyExited
    \/ SocketDisconnect
    \/ RpcCloseTerminal

SpecRefresh == InitStream /\ [][NextRefresh]_vars

\* ---- foreground process poller ---------------------------------------------
MaxPolls == 2

\* what exec's callback of `ps -o comm= --sid <pid> | head -n 1` is given
PsOutputs ==
    {[err |-> TRUE, stdout |-> ""]}
        \cup {[err |-> FALSE, stdout |-> x] : x \in {"", "\n", "bash\n", "vim\n"}}

\* String.prototype.trim on the outputs above
trim(x) ==
    CASE x = "bash\n" -> "bash"
      [] x = "vim\n" -> "vim"
      [] x = "\n" -> ""
      [] OTHER -> x

\* getForegroundProcessName: null on an error or an empty stdout, else the
\* trimmed stdout
getForegroundProcessName(out) ==
    IF out.err \/ out.stdout = ""
    THEN [null |-> TRUE, name |-> ""]
    ELSE [null |-> FALSE, name |-> trim(out.stdout)]

\* name && name !== terminal.programName
nameChangedMutAnyName(res, stored) == ~res.null /\ res.name # ""
nameChanged(res, stored) == ~res.null /\ res.name # "" /\ res.name # stored

\* the setInterval callback: one query per registered session; each promise
\* callback keeps the terminal object it was started for
PollTick ==
    /\ polls < MaxPolls
    /\ polls' = polls + 1
    /\ queries' = queries \cup {[terminal |-> t, poll |-> polls + 1] : t \in terminals}
    /\ UNCHANGED <<registryVars, tokenVars, handshake, ptyInput, programVars,
                   server, lastQuery, thrown, refreshLog, managerVars, moreVars>>

\* .then((name) => ...) of one query
QueryResolve(q, out) ==
    /\ q \in queries
    /\ queries' = queries \ {q}
    /\ lastQuery' = <<[terminal |-> q.terminal, out |-> out]>>
    /\ LET t == q.terminal
           res == getForegroundProcessName(out)
       IN IF nameChanged(res, inst[t].programName)
          THEN /\ inst' = [inst EXCEPT ![t].programName = res.name]
               /\ recv' = EmitEach(recv, inst[t].connections,
                                   Msg("programNameChanged", t, res.name))
          ELSE UNCHANGED <<inst, recv>>
    /\ UNCHANGED <<sockets, terminals, socketToTerminalMap, listChanged, produced,
                   closeReq, attachPoint, attachCount, removals, detachLog,
                   lastAttach, tokenVars, handshake, ptyInput, programVars, server,
                   polls, thrown, refreshLog, managerVars, moreVars>>

QueryResolved == \E q \in queries, out \in PsOutputs : QueryResolve(q, out)

NextPoller ==
    \/ SocketConnect
    \/ StreamAttach
    \/ PollTick
    \/ QueryResolved
    \/ PtyExited
    \/ SocketDisconnect
    \/ RpcCloseTerminal

SpecPoller == InitStream /\ [][NextPoller]_vars

\* ---- input from sockets that attach under any client id -------------------
InputAttach == \E s \in Sockets, d \in AttachDataClient : Attach(s, d)

NextInput ==
    \/ SocketConnect
    \/ RpcCreateTerminal
    \/ InputAttach
    \/ AuthInput
    \/ PtyExited
    \/ SocketDisconnect
    \/ RpcCloseTerminal
    \/ SocketCloseTerminal

SpecInput == Init /\ [][NextInput]_vars

\* ---- Program supervisor (Program.ts) -------------------------------------
\* One Program object and the host it runs on.  A method is a chain of
\* callbacks; each callback, with the code that runs after it up to the next
\* exec or timer, is one action, and call.pc names what the method waits for.
\* The promise of findProcessPid resolves in one action and its caller
\* continues in the next.  The host changes on its own between the actions.
MaxPid == 2
Pids == 1..MaxPid

outsideProgram == <<registryVars, tokenVars, handshake, ptyInput, config, laterVars>>

\* getState(): what the status-change callback is handed
getState(p) ==
    [stopMethod |-> p.stopMethod, pid |-> p.pid, status |-> p.status,
     screenActive |-> p.screenActive]

\* updateStatus(newStatus) and notifyStatusChange(); the callback is the one
\* ProgramManager hands every Program it builds
updateStatusMutAlwaysNotify(p, newStatus) ==
    LET q == [p EXCEPT !.status = newStatus]
    IN [q EXCEPT !.notified = Append(@, getState(q))]
updateStatus(p, newStatus) ==
    IF p.status # newStatus
    THEN LET q == [p EXCEPT !.status = newStatus]
         IN [q EXCEPT !.notified = Append(@, getState(q))]
    ELSE p

\* a method starts: the history of callback invocations starts anew
Entered(p) == [p EXCEPT !.notified = <<>>]

\* a method returns value v ("true", "false", or "void" for monitor)
Return(c, v) == [c EXCEPT !.pc = "done", !.ret = v]
\* one more signal, keystroke or command of the method went out
Sent(c, kind, pid) == [c EXCEPT !.sent = Append(@, [kind |-> kind, pid |-> pid])]
\* a method is entered
Enter(method, pc, after) ==
    [method |-> method, pc |-> pc, after |-> after, ret |-> "",
     pre |-> Entered(program),
     sent |-> <<>>, raised |-> "", read |-> "none"]
\* an exception reached the catch of the method; what names the throwing call
Raised(c, what) == [c EXCEPT !.raised = what]

\* -- the host ---------------------------------------------------------------
\* a screen session of that name is started from outside
ScreenStarts ==
    /\ ~os.screen
    /\ os' = [os EXCEPT !.screen = TRUE]
    /\ UNCHANGED <<outsideProgram, program, call>>

\* the session ends, and the process in it with it
ScreenEnds ==
    /\ os.screen
    /\ os' = [screen |-> FALSE, proc |-> 0]
    /\ UNCHANGED <<outsideProgram, program, call>>

\* a process runs in the session
ProcessStarts ==
    /\ os.screen
    /\ os.proc = 0
    /\ \E p \in Pids : os' = [os EXCEPT !.proc = p]
    /\ UNCHANGED <<outsideProgram, program, call>>

\* the process exits
ProcessExits ==
    /\ os.proc # 0
    /\ os' = [os EXCEPT !.proc = 0]
    /\ UNCHANGED <<outsideProgram, program, call>>

\* checkScreenActive(): what the callback of `screen -list | grep name` stores
\* in screenActive; an exec that fails reports the session as not there
ScreenList == {os.screen, FALSE}
\* stdout of a ps pipeline: the pid of the process in the session, or nothing
PsOutput == {""} \cup (IF os.proc # 0 THEN {ToString(os.proc)} ELSE {})
\* what the callback of the ps pipeline of frame c is handed: what ps has
\* read from the process table if it has read it, else what it reads now
PsOutputOf(c) == IF c.read = "none" THEN PsOutput ELSE {c.read}
\* parseInt(stdout.trim(), 10)
parseInt(stdout) == CHOOSE n \in Pids : ToString(n) = stdout

\* -- findProcessPid() -------------------------------------------------------
\* lines 321-326: no session
sessionInactiveMutKeep(p) == [p EXCEPT !.screenActive = FALSE]
sessionInactive(p) ==
    updateStatus([p EXCEPT !.screenActive = FALSE, !.pid = 0], "stopped")
\* lines 342-343, 350-351, 357-358: a pid was printed
pidFound(p, stdout) == updateStatus([p EXCEPT !.pid = parseInt(stdout)], "running")

\* checkScreenActive().then(...)
findProcessPidScreen ==
    /\ call.pc = "fpp_screen"
    /\ \E active \in ScreenList :
          IF active
          THEN /\ program' = [program EXCEPT !.screenActive = TRUE]
               /\ call' = [call EXCEPT !.pc = "fpp_tty"]
          ELSE /\ program' = sessionInactive(program)
               /\ call' = [call EXCEPT !.pc = "fpp_resolved"]
    /\ UNCHANGED <<outsideProgram, os>>

\* ps -o pid,cmd -t <tty of the session>
findProcessPidTty ==
    /\ call.pc = "fpp_tty"
    /\ \E stdout \in PsOutputOf(call) :
          IF stdout = ""
          THEN /\ program' = program
               /\ call' = [call EXCEPT !.pc = "fpp_command", !.read = "none"]
          ELSE /\ program' = pidFound(program, stdout)
               /\ call' = [call EXCEPT !.pc = "fpp_resolved", !.read = "none"]
    /\ UNCHANGED <<outsideProgram, os>>

\* ps aux | grep <command>
findProcessPidCommand ==
    /\ call.pc = "fpp_command"
    /\ \E stdout \in PsOutputOf(call) :
          IF stdout = ""
          THEN /\ program' = program
               /\ call' = [call EXCEPT !.pc = "fpp_any", !.read = "none"]
          ELSE /\ program' = pidFound(program, stdout)
               /\ call' = [call EXCEPT !.pc = "fpp_resolved", !.read = "none"]
    /\ UNCHANGED <<outsideProgram, os>>

\* ps -o pid -t <tty>: any process of the session
findProcessPidAny ==
    /\ call.pc = "fpp_any"
    /\ \E stdout \in PsOutputOf(call) :
          /\ program' = IF stdout = ""
                        THEN updateStatus([program EXCEPT !.pid = 0], "stopped")
                        ELSE pidFound(program, stdout)
          /\ call' = [call EXCEPT !.pc = "fpp_resolved", !.read = "none"]
    /\ UNCHANGED <<outsideProgram, os>>

\* -- start() ----------------------------------------------------------------
\* A method may be called when the previous one has returned.
start ==
    /\ call.pc = "done"
    /\ call' = Enter("start", "fpp_screen", "start_existing")
    /\ program' = Entered(program)
    /\ UNCHANGED <<outsideProgram, os>>

\* catch (error) of start(): lines 152-156
startCatchMutKeepStatus(p, c) ==
    /\ program' = p
    /\ call' = Return(c, "false")
startCatch(p, c) ==
    /\ program' = updateStatus(p, "error")
    /\ call' = Return(c, "false")

\* an exec issued by runInScreen(): it throws, which rejects runInScreen(),
\* or it is under way and the method waits for its callback
runInScreenExec(p, c, pc) ==
    \E throws \in BOOLEAN :
        IF throws
        THEN startCatch(p, Raised(c, pc))
        ELSE /\ program' = p
             /\ call' = [c EXCEPT !.pc = pc]

\* lines 138-145: existingPid is back
startExisting ==
    /\ call.pc = "fpp_resolved" /\ call.after = "start_existing"
    /\ IF program.pid # 0
       THEN /\ program' = updateStatus(program, "running")
            /\ call' = Return(call, "true")
       ELSE runInScreenExec(program, call, "screen_list")
    /\ UNCHANGED <<outsideProgram, os>>

\* startScreen(): callback of `screen -list | grep name` (lines 90-100)
startScreenList ==
    /\ call.pc = "screen_list"
    /\ \E found \in ScreenList :
          IF found
          THEN runInScreenExec([program EXCEPT !.screenActive = TRUE], call,
                               "send_command")
          ELSE /\ program' = program
               /\ call' = [call EXCEPT !.pc = "screen_create"]
    /\ UNCHANGED <<outsideProgram, os>>

\* startScreen(): callback of `screen -dmS name` (lines 100-108)
startScreenCreate ==
    /\ call.pc = "screen_create"
    /\ \E error \in BOOLEAN :
          IF error
          THEN /\ call' = Return(call, "false")
               /\ os' = os
          ELSE /\ call' = [call EXCEPT !.pc = "screen_check"]
               /\ os' = [os EXCEPT !.screen = TRUE]
    /\ UNCHANGED <<outsideProgram, program>>

\* startScreen(): checkScreenActive() is back, resolve(this.screenActive)
startScreenCheck ==
    /\ call.pc = "screen_check"
    /\ \E active \in ScreenList :
          IF active
          THEN runInScreenExec([program EXCEPT !.screenActive = TRUE], call,
                               "send_command")
          ELSE /\ program' = [program EXCEPT !.screenActive = FALSE]
               /\ call' = Return(call, "false")
    /\ UNCHANGED <<outsideProgram, os>>

\* sendCommandToScreen(this.command): callback of `screen -X stuff` (116-123);
\* then line 147 calls findProcessPid()
startSendCommand ==
    /\ call.pc = "send_command"
    /\ \E error \in BOOLEAN :
          call' = IF error THEN Return(call, "false")
                  ELSE [Sent(call, "command", 0) EXCEPT !.pc = "fpp_screen",
                                                       !.after = "start_launched"]
    /\ UNCHANGED <<outsideProgram, program, os>>

\* lines 147-149
startLaunched ==
    /\ call.pc = "fpp_resolved" /\ call.after = "start_launched"
    /\ program' = updateStatus(program, "running")
    /\ call' = Return(call, "true")
    /\ UNCHANGED <<outsideProgram, os>>

\* -- stop() -----------------------------------------------------------------
\* stopWithCtrlC(), up to its first exec (lines 211-224)
stopWithCtrlC(c) ==
    [c EXCEPT !.pc = IF program.screenActive THEN "ctrlc_send" ELSE "ctrlc_check"]

\* lines 171-176: no pid was found for a signal
stopNoPidMutGiveUp(c) == Return(c, "false")
stopNoPid(c) ==
    IF program.screenActive THEN stopWithCtrlC(c) ELSE Return(c, "false")

\* lines 180-192: process.kill(pid, signal) throws when no such process
\* exists, which the catch of stop() turns into false; CTRL_C is the keystroke
stopSignal(c) ==
    IF program.stopMethod = "CTRL_C" THEN stopWithCtrlC(c)
    ELSE IF os.proc = program.pid
         THEN [Sent(c, program.stopMethod, program.pid) EXCEPT !.pc = "stop_wait"]
         ELSE Return(Raised(Sent(c, program.stopMethod, program.pid), "kill"), "false")

\* lines 159-166
stop ==
    /\ call.pc = "done"
    /\ LET c == Enter("stop", "", "")
       IN call' = IF program.stopMethod # "CTRL_C" /\ program.pid = 0
                  THEN [c EXCEPT !.pc = "fpp_screen", !.after = "stop_found"]
                  ELSE stopSignal(c)
    /\ program' = Entered(program)
    /\ UNCHANGED <<outsideProgram, os>>

\* lines 168-178: findProcessPid() is back
stopFound ==
    /\ call.pc = "fpp_resolved" /\ call.after = "stop_found"
    /\ call' = IF program.pid = 0 THEN stopNoPid(call) ELSE stopSignal(call)
    /\ UNCHANGED <<outsideProgram, program, os>>

\* line 192: the grace delay is over; line 195 calls findProcessPid()
stopWait ==
    /\ call.pc = "stop_wait"
    /\ call' = [call EXCEPT !.pc = "fpp_screen", !.after = "stop_verify"]
    /\ UNCHANGED <<outsideProgram, program, os>>

\* lines 197-204 and 233-240: the outcome of the stop attempt
stopOutcomeMutAlwaysStopped(p, c) ==
    /\ program' = updateStatus([p EXCEPT !.pid = 0], "stopped")
    /\ call' = Return(c, "true")
stopOutcome(p, c) ==
    IF p.pid = 0
    THEN /\ program' = updateStatus(p, "stopped")
         /\ call' = Return(c, "true")
    ELSE /\ program' = p
         /\ call' = Return(c, "false")

stopVerify ==
    /\ call.pc = "fpp_resolved" /\ call.after = "stop_verify"
    /\ stopOutcome(program, call)
    /\ UNCHANGED <<outsideProgram, os>>

\* stopWithCtrlC(): checkScreenActive() is back (lines 216-221)
ctrlCCheck ==
    /\ call.pc = "ctrlc_check"
    /\ \E active \in ScreenList :
          /\ program' = [program EXCEPT !.screenActive = active]
          /\ call' = IF active THEN [call EXCEPT !.pc = "ctrlc_send"]
                     ELSE Return(call, "false")
    /\ UNCHANGED <<outsideProgram, os>>

\* stopWithCtrlC(): callback of `screen -X stuff "\x03"`; its result is only
\* logged (lines 224-225)
ctrlCSend ==
    /\ call.pc = "ctrlc_send"
    /\ \E error \in BOOLEAN :
          call' = [(IF error THEN call ELSE Sent(call, "CTRL_C", 0))
                      EXCEPT !.pc = "ctrlc_wait"]
    /\ UNCHANGED <<outsideProgram, program, os>>

\* line 228: the grace delay is over; line 231 calls findProcessPid()
ctrlCWait ==
    /\ call.pc = "ctrlc_wait"
    /\ call' = [call EXCEPT !.pc = "fpp_screen", !.after = "ctrlc_verify"]
    /\ UNCHANGED <<outsideProgram, program, os>>

ctrlCVerify ==
    /\ call.pc = "fpp_resolved" /\ call.after = "ctrlc_verify"
    /\ stopOutcome(program, call)
    /\ UNCHANGED <<outsideProgram, os>>

\* -- terminate() ------------------------------------------------------------
\* catch (error) of terminate(): lines 311-314
terminateCatch(c) == Return(c, "false")

\* an exec issued by terminate() itself: it throws, or it is under way
terminateExec(p, c, pc) ==
    \E throws \in BOOLEAN :
        IF throws
        THEN /\ program' = p
             /\ call' = terminateCatch(Raised(c, pc))
        ELSE /\ program' = p
             /\ call' = [c EXCEPT !.pc = pc]

\* lines 285-287
terminateUpdateMutKeepPid(p) ==
    updateStatus([p EXCEPT !.screenActive = FALSE], "stopped")
terminateUpdate(p) ==
    updateStatus([p EXCEPT !.pid = 0, !.screenActive = FALSE], "stopped")

\* lines 266-290: kill the process tree if a pid is known, else go on to the
\* update and the check that the session is gone
terminateKillOrUpdate(p, c) ==
    IF p.pid # 0
    THEN /\ program' = p
         /\ call' = [Sent(c, "SIGKILL", p.pid) EXCEPT !.pc = "terminate_kill"]
    ELSE terminateExec(terminateUpdate(p), c, "terminate_verify")

\* line 310
terminateResultMutByPid(p, c) == IF c.pre.pid # 0 THEN "true" ELSE "false"
terminateResult(p, c) == IF p.screenActive THEN "false" ELSE "true"

\* lines 243-248
terminate ==
    /\ call.pc = "done"
    /\ terminateExec(Entered(program), Enter("terminate", "", ""), "terminate_check")
    /\ UNCHANGED <<outsideProgram, os>>

\* lines 248-263: checkScreenActive() is back
terminateCheck ==
    /\ call.pc = "terminate_check"
    /\ \E active \in ScreenList :
          IF active
          THEN terminateExec([program EXCEPT !.screenActive = TRUE], call,
                             "terminate_quit")
          ELSE terminateKillOrUpdate([program EXCEPT !.screenActive = FALSE], call)
    /\ UNCHANGED <<outsideProgram, os>>

\* callback of `screen -S name -X quit`: the error is only logged
terminateQuit ==
    /\ call.pc = "terminate_quit"
    /\ \E error \in BOOLEAN :
          os' = IF error THEN os ELSE [screen |-> FALSE, proc |-> 0]
    /\ terminateKillOrUpdate(program, Sent(call, "quit", 0))
    /\ UNCHANGED outsideProgram

\* callback of treeKill(pid, 'SIGKILL'): the error is only logged
terminateKill ==
    /\ call.pc = "terminate_kill"
    /\ \E err \in BOOLEAN :
          /\ os' = IF ~err /\ os.proc = program.pid THEN [os EXCEPT !.proc = 0] ELSE os
          /\ terminateExec(terminateUpdate(program),
                           IF err THEN call ELSE Sent(call, "killed", program.pid),
                           "terminate_verify")
    /\ UNCHANGED outsideProgram

\* lines 290-310: checkScreenActive() is back
terminateVerify ==
    /\ call.pc = "terminate_verify"
    /\ \E active \in ScreenList :
          LET p == [program EXCEPT !.screenActive = active]
          IN IF active
             THEN terminateExec(p, call, "terminate_force")
             ELSE /\ program' = p
                  /\ call' = Return(call, terminateResult(p, call))
    /\ UNCHANGED <<outsideProgram, os>>

\* callback of `screen -wipe name && screen -S name -X quit`
terminateForce ==
    /\ call.pc = "terminate_force"
    /\ \E error \in BOOLEAN :
          os' = IF error THEN os ELSE [screen |-> FALSE, proc |-> 0]
    /\ terminateExec(program, Sent(call, "wipe", 0), "terminate_final")
    /\ UNCHANGED outsideProgram

\* lines 307-310
terminateFinal ==
    /\ call.pc = "terminate_final"
    /\ \E active \in ScreenList :
          LET p == [program EXCEPT !.screenActive = active]
          IN /\ program' = p
             /\ call' = Return(call, terminateResult(p, call))
    /\ UNCHANGED <<outsideProgram, os>>

\* -- monitor() --------------------------------------------------------------
\* lines 365-372; call.pre holds prevStatus, prevPid and prevScreenActive
monitor ==
    /\ call.pc = "done"
    /\ call' = Enter("monitor", "monitor_check", "")
    /\ program' = Entered(program)
    /\ UNCHANGED <<outsideProgram, os>>

\* lines 375-390: the session is not there
monitorInactiveMutKeep(p, prev) == p
monitorInactive(p, prev) ==
    IF prev.screenActive \/ p.status # "stopped"
    THEN updateStatus([p EXCEPT !.pid = 0], "stopped")
    ELSE p

\* lines 372-393: checkScreenActive() is back
monitorCheckMutResolveAnyway ==
    /\ call.pc = "monitor_check"
    /\ \E active \in ScreenList :
          /\ program' = [program EXCEPT !.screenActive = active]
          /\ call' = [call EXCEPT !.pc = "fpp_tty", !.after = "monitor_found"]
    /\ UNCHANGED <<outsideProgram, os>>
monitorCheck ==
    /\ call.pc = "monitor_check"
    /\ \E active \in ScreenList :
          LET p == [program EXCEPT !.screenActive = active]
          IN IF active
             THEN /\ program' = p
                  /\ call' = [call EXCEPT !.pc = "fpp_screen", !.after = "monitor_found"]
             ELSE /\ program' = monitorInactive(p, call.pre)
                  /\ call' = Return(call, "void")
    /\ UNCHANGED <<outsideProgram, os>>

\* lines 395-418: findProcessPid() is back; process.kill(pid, 0) throws when
\* no such process exists
monitorFound ==
    /\ call.pc = "fpp_resolved" /\ call.after = "monitor_found"
    /\ IF program.pid = 0
       THEN /\ program' = program
            /\ call' = Return(call, "void")
       ELSE IF os.proc = program.pid
            THEN /\ program' = updateStatus(program, "running")
                 /\ call' = Return(call, "void")
            ELSE /\ program' = updateStatus([program EXCEPT !.pid = 0], "stopped")
                 /\ call' = [call EXCEPT !.pc = "monitor_recheck"]
    /\ UNCHANGED <<outsideProgram, os>>

\* lines 412-416: checkScreenActive() is back
monitorRecheck ==
    /\ call.pc = "monitor_recheck"
    /\ \E active \in ScreenList :
          /\ program' = [program EXCEPT !.screenActive = active]
          /\ call' = IF active
                     THEN [call EXCEPT !.pc = "fpp_screen", !.after = "monitor_refound"]
                     ELSE Return(call, "void")
    /\ UNCHANGED <<outsideProgram, os>>

\* line 415: findProcessPid() is back
monitorRefound ==
    /\ call.pc = "fpp_resolved" /\ call.after = "monitor_refound"
    /\ call' = Return(call, "void")
    /\ UNCHANGED <<outsideProgram, program, os>>

\* -- the supervisor and its host --------------------------------------------
\* new Program(config, configPath) for each configuration
InitProgram ==
    /\ InitRegistry
    /\ rpcSockets = [m \in RpcSockets |-> "new"]
    /\ authTokens = <<>>
    /\ issued = 0
    /\ now = 0
    /\ webSocketServer = FALSE
    /\ handshake = EmptyMap
    /\ ptyInput = <<>>
    /\ config \in Configs
    /\ program = Program(config)
    /\ os = [screen |-> FALSE, proc |-> 0]
    /\ call = NoCall
    /\ InitLater

NextProgram ==
    \/ ScreenStarts
    \/ ScreenEnds
    \/ ProcessStarts
    \/ ProcessExits
    \/ findProcessPidScreen
    \/ findProcessPidTty
    \/ findProcessPidCommand
    \/ findProcessPidAny
    \/ start
    \/ startExisting
    \/ startScreenList
    \/ startScreenCreate
    \/ startScreenCheck
    \/ startSendCommand
    \/ startLaunched
    \/ stop
    \/ stopFound
    \/ stopWait
    \/ stopVerify
    \/ ctrlCCheck
    \/ ctrlCSend
    \/ ctrlCWait
    \/ ctrlCVerify
    \/ terminate
    \/ terminateCheck
    \/ terminateQuit
    \/ terminateKill
    \/ terminateVerify
    \/ terminateForce
    \/ terminateFinal
    \/ monitor
    \/ monitorCheck
    \/ monitorFound
    \/ monitorRecheck
    \/ monitorRefound

SpecProgram == InitProgram /\ [][NextProgram]_vars

\* ---- a monitor pass of the timer and a terminate() in flight together ------
\* The interval of startMonitoring calls monitor() whatever else is going on,
\* so a pass and a terminate() of an rpc request wait for their callbacks at
\* the same time.  call is the method whose callback runs next and pass the
\* one that waits; either callback may be the next to arrive.
Swap ==
    /\ call # pass
    /\ call' = pass
    /\ pass' = call
    /\ UNCHANGED <<registryVars, tokenVars, handshake, ptyInput, config, program, os,
                   server, pollerVars, thrown, refreshLog, managerVars, spawns,
                   clientVars>>

\* the ps pipeline of the method reads the process table, some time between
\* the exec call and its callback
PsReads ==
    /\ call.pc \in {"fpp_tty", "fpp_command", "fpp_any"}
    /\ call.read = "none"
    /\ \E stdout \in PsOutput : call' = [call EXCEPT !.read = stdout]
    /\ UNCHANGED <<outsideProgram, program, os>>

\* an rpc request calls terminate(), once, on the program as constructed or
\* as the pass in progress has left it so far
OverlapTerminate ==
    /\ call = NoCall
    /\ terminate

\* the timer calls monitor(), once, and not after terminate() has returned:
\* a pass found in progress next to a terminate() that has returned began
\* before that return
OverlapMonitor ==
    /\ call = NoCall
    /\ ~(pass.method = "terminate" /\ pass.pc = "done")
    /\ monitor

NextOverlap ==
    \/ ScreenStarts
    \/ ScreenEnds
    \/ ProcessStarts
    \/ ProcessExits
    \/ Swap
    \/ PsReads
    \/ findProcessPidScreen
    \/ findProcessPidTty
    \/ findProcessPidCommand
    \/ findProcessPidAny
    \/ OverlapTerminate
    \/ terminateCheck
    \/ terminateQuit
    \/ terminateKill
    \/ terminateVerify
    \/ terminateForce
    \/ terminateFinal
    \/ OverlapMonitor
    \/ monitorCheck
    \/ monitorFound
    \/ monitorRecheck
    \/ monitorRefound

\* terminate() and monitor() do not read stopMethod
InitOverlap == InitProgram /\ config.stopMethod = ""

SpecOverlap == InitOverlap /\ [][NextOverlap]_vars

\* ---- the client's tabs (TabsManager.ts) ------------------------------------
MaxTabs == 4
TabIds == {ListTabId, "form-1", "terminal-1"}
\* the tabs the components add; those of terminals carry their instance
NewTabs ==
    [id : TabIds, type : {"form"}, active : BOOLEAN, closable : BOOLEAN, terminal : {0}]
    \cup [id : TabIds, type : {"terminal"}, active : BOOLEAN, closable : {TRUE},
          terminal : {1}]

\* tabs.findIndex(tab => tab.id === id); 0 is the -1 of the code
findIndex(tabs, id) ==
    IF \E i \in 1..Len(tabs) : tabs[i].id = id
    THEN CHOOSE i \in 1..Len(tabs) :
             tabs[i].id = id /\ \A j \in 1..(i - 1) : tabs[j].id # id
    ELSE 0

\* setActiveTab(id)
setActiveTab(m, id) ==
    LET tabIndex == findIndex(m.tabs, id)
    IN IF tabIndex = 0 THEN m
       ELSE [m EXCEPT !.tabs = [i \in 1..Len(@) |-> [@[i] EXCEPT !.active = (i = tabIndex)]],
                      !.activeTabId = id]

\* addTab(newTab)
addTab(m, newTab) ==
    LET pushed == [m EXCEPT !.tabs = Append(@, [newTab EXCEPT !.active = FALSE])]
    IN IF newTab.active THEN setActiveTab(pushed, newTab.id) ELSE pushed

\* closeTab(id): tabToClose is the first tab of that id, the filter removes
\* every tab of that id; when tabToClose was the active tab, the tab before it
\* becomes the active one
closeTab(m, id) ==
    LET tabIndex == findIndex(m.tabs, id)
    IN IF Len(m.tabs) = 1 \/ (m.tabs[1].id = id /\ ~m.tabs[1].closable) THEN m
       ELSE IF tabIndex = 0 THEN m
       ELSE LET left == SelectSeq(m.tabs, LAMBDA tab : tab.id # id)
                newActiveIndex == IF tabIndex - 1 > 1 THEN tabIndex - 1 ELSE 1
            IN IF m.tabs[tabIndex].active
               THEN [m EXCEPT !.tabs = [left EXCEPT ![newActiveIndex].active = TRUE],
                              !.activeTabId = left[newActiveIndex].id,
                              !.closedActive = TRUE]
               ELSE [m EXCEPT !.tabs = left]

otherVarsOfTabs == <<registryVars, tokenVars, handshake, ptyInput, programVars, server,
                     pollerVars, thrown, refreshLog, managerVars, spawns, pass,
                     terminalManager>>

AddTab ==
    /\ Len(tabsManager.tabs) < MaxTabs
    /\ \E newTab \in NewTabs : tabsManager' = addTab(tabsManager, newTab)
    /\ UNCHANGED otherVarsOfTabs

SetActiveTab ==
    /\ \E id \in TabIds : tabsManager' = setActiveTab(tabsManager, id)
    /\ UNCHANGED otherVarsOfTabs

CloseTab ==
    /\ \E id \in TabIds : tabsManager' = closeTab(tabsManager, id)
    /\ UNCHANGED otherVarsOfTabs

NextTabs ==
    \/ AddTab
    \/ SetActiveTab
    \/ CloseTab

SpecTabs == Init /\ [][NextTabs]_vars

\* ---- the client's terminal instances (TerminalManager.ts) ------------------
Range(seq) == {seq[i] : i \in 1..Len(seq)}
\* the ids of a set in the order of the server's Map: ids are handed out in
\* ascending order
RECURSIVE Ascending(_)
Ascending(ids) ==
    IF ids = {} THEN <<>>
    ELSE LET least == CHOOSE x \in ids : \A y \in ids : x <= y
         IN <<least>> \o Ascending(ids \ {least})

TerminalTabId(id) == "terminal-" \o ToString(id)
\* the tab updateTabs adds for an instance
TerminalTab(id, terminalId) ==
    [id |-> TerminalTabId(id), type |-> "terminal", active |-> (id = terminalId),
     closable |-> TRUE, terminal |-> id]
\* handleAddProgram: a form tab, active
FormTab == [id |-> "form-1", type |-> "form", active |-> TRUE, closable |-> TRUE,
            terminal |-> 0]

\* updateTabs, first loop: a tab for each instance that currentTabs has none for
RECURSIVE addMissingTabs(_, _, _, _)
addMissingTabs(m, instances, currentTabs, terminalId) ==
    IF instances = <<>> THEN m
    ELSE LET id == Head(instances)
             exists == \E i \in 1..Len(currentTabs) :
                           /\ currentTabs[i].type = "terminal"
                           /\ currentTabs[i].terminal = id
         IN addMissingTabs(IF exists THEN m ELSE addTab(m, TerminalTab(id, terminalId)),
                           Tail(instances), currentTabs, terminalId)

\* updateTabs, second loop: the tabs of currentTabs whose instance is gone
\* are closed
closeStaleTabsMutKeep(m, instances, currentTabs) == m
RECURSIVE closeStaleTabs(_, _, _)
closeStaleTabs(m, instances, currentTabs) ==
    IF currentTabs = <<>> THEN m
    ELSE LET tab == Head(currentTabs)
             stale == /\ tab.type = "terminal"
                      /\ tab.terminal # 0
                      /\ tab.terminal \notin Range(instances)
         IN closeStaleTabs(IF stale THEN closeTab(m, tab.id) ELSE m,
                           instances, Tail(currentTabs))

\* updateTabs(terminalId); 0 is the absent terminalId
updateTabs(m, instances, terminalId) ==
    closeStaleTabs(addMissingTabs(m, instances, m.tabs, terminalId), instances, m.tabs)

\* addTerminalInstance(terminalInfo): instances.set(id, newInstance)
addTerminalInstance(instances, id) ==
    IF id \in Range(instances) THEN instances ELSE Append(instances, id)

\* updateTerminalInstancesFromServer after its await: the instances Map
reconciledInstances(instances, list) ==
    LET missing == SelectSeq(Ascending(list), LAMBDA id : id \notin Range(instances))
    IN SelectSeq(instances \o missing, LAMBDA id : id \in list)

otherVarsOfClient == <<registryVars, tokenVars, handshake, ptyInput, programVars, server,
                       pollerVars, thrown, refreshLog, managerVars, spawns, pass>>

\* updateTerminalInstancesFromServer() is called and the server answers its
\* listTerminals request; the answer is on its way
ListRequest ==
    /\ terminalManager.fetched = <<>>
    /\ terminalManager' = [terminalManager EXCEPT !.fetched = <<{x.id : x \in listTerminals}>>]
    /\ UNCHANGED <<otherVarsOfClient, tabsManager>>

\* the answer arrives: lines 207-240 run to the end
ListResolve ==
    /\ terminalManager.fetched # <<>>
    /\ LET list == terminalManager.fetched[1]
           instances == reconciledInstances(terminalManager.instances, list)
       IN /\ terminalManager' =
                 [instances |-> instances, fetched |-> <<>>, applied |-> <<list>>,
                  removed |-> terminalManager.removed
                                 \cup (Range(terminalManager.instances) \ list)]
          /\ tabsManager' = updateTabs(tabsManager, instances, 0)
    /\ UNCHANGED otherVarsOfClient

\* createTerminalOnServer after its awaits, for a session the server made
CreateResolve ==
    /\ \E id \in DOMAIN inst :
          LET instances == addTerminalInstance(terminalManager.instances, id)
          IN /\ terminalManager' = [terminalManager EXCEPT !.instances = instances]
             /\ tabsManager' = updateTabs(tabsManager, instances, id)
    /\ UNCHANGED otherVarsOfClient

\* the user opens a form tab, closes a tab, or selects one
UserAddsTab ==
    /\ \A i \in 1..Len(tabsManager.tabs) : tabsManager.tabs[i].type # "form"
    /\ tabsManager' = addTab(tabsManager, FormTab)
    /\ UNCHANGED <<otherVarsOfClient, terminalManager>>
UserClosesTab ==
    /\ \E i \in 1..Len(tabsManager.tabs) :
          tabsManager' = closeTab(tabsManager, tabsManager.tabs[i].id)
    /\ UNCHANGED <<otherVarsOfClient, terminalManager>>
UserSelectsTab ==
    /\ \E i \in 1..Len(tabsManager.tabs) :
          tabsManager' = setActiveTab(tabsManager, tabsManager.tabs[i].id)
    /\ UNCHANGED <<otherVarsOfClient, terminalManager>>

NextClient ==
    \/ RpcCreateTerminal
    \/ RpcCloseTerminal
    \/ PtyExited
    \/ ListRequest
    \/ ListResolve
    \/ CreateResolve
    \/ UserAddsTab
    \/ UserClosesTab
    \/ UserSelectsTab

SpecClient == Init /\ [][NextClient]_vars

\* ---- Shutdown (server.ts, TerminalServer.ts, WebSocketServer.ts) -----------
\* io.disconnectSockets(true) of the terminal namespace: every connected
\* socket is closed and its disconnect handler runs, on a registry that
\* shutdown() has cleared already
disconnectSockets ==
    LET open == {s \in Sockets : sockets[s] = "connected"}
    IN /\ sockets' = [s \in Sockets |->
                         IF s \in open THEN "disconnected" ELSE sockets[s]]
       /\ socketToTerminalMap' = Del(socketToTerminalMap, open)
       /\ recv' = [s \in Sockets |-> IF s \in open THEN <<>> ELSE recv[s]]
       /\ attachPoint' = Del(attachPoint, {p \in DOMAIN attachPoint : p[1] \in open})

\* TerminalServer.shutdown(): kill() for every registered pty, terminals.clear()
shutdown ==
    /\ inst' = [t \in DOMAIN inst |->
                   IF t \in terminals THEN [inst[t] EXCEPT !.killed = TRUE] ELSE inst[t]]
    /\ terminals' = {}
    /\ disconnectSockets

\* WebSocketServer.shutdown(): the sockets of the programs namespace are
\* disconnected, and their disconnect handlers drop their tokens
wsShutdown ==
    /\ rpcSockets' = [m \in RpcSockets |->
                         IF rpcSockets[m] = "connected" THEN "disconnected"
                         ELSE rpcSockets[m]]
    /\ authTokens' = SelectSeq(authTokens,
                               LAMBDA t : rpcSockets[t.socketId] # "connected")

\* process.on('SIGINT'), up to `await app.close()`: `await
\* terminalServer.shutdown()` awaits the undefined that shutdown() returns, so
\* no callback runs before wsServer.shutdown(), io.close() and server.close()
Sigint ==
    /\ server = "up"
    /\ server' = "drained"
    /\ shutdown
    /\ wsShutdown
    /\ UNCHANGED <<listChanged, produced, closeReq, attachCount, removals, detachLog,
                   lastAttach, issued, now, webSocketServer, handshake, ptyInput,
                   programVars, pollerVars, thrown, refreshLog, managerVars, moreVars>>

\* app.close() is back: the handles are unreferenced and process.exit(0) runs
ProcessExit ==
    /\ server = "drained"
    /\ server' = "exited"
    /\ UNCHANGED <<registryVars, tokenVars, handshake, ptyInput, programVars,
                   pollerVars, thrown, refreshLog, managerVars, moreVars>>

\* The server listens and handles requests until SIGINT; callbacks of ptys
\* run as long as the process does.
UpConnect == server = "up" /\ SocketConnect
UpCreateTerminal == server = "up" /\ RpcCreateTerminal
UpAttach == server = "up" /\ SocketAttach
UpOutput == server = "up" /\ PtyOutput
UpDisconnect == server = "up" /\ SocketDisconnect
UpCloseTerminal == server = "up" /\ RpcCloseTerminal
RunningPtyExited == server # "exited" /\ PtyExited

NextShutdown ==
    \/ UpConnect
    \/ UpCreateTerminal
    \/ UpAttach
    \/ UpOutput
    \/ UpDisconnect
    \/ UpCloseTerminal
    \/ RunningPtyExited
    \/ Sigint
    \/ ProcessExit

SpecShutdown == Init /\ [][NextShutdown]_vars

\* ---- RPC requests (WebSocketServer.ts, ProgramManager of Program.ts) -------
\* A request is {id, method, params}; the id is the caller's.  Of params the
\* model keeps the program id (0: none given) and the name of a configuration
\* ("": none given).  A Program method a handler awaits is a wait that ends
\* with its return or, where the method has no catch of its own, its throw.
MaxRequests == 2
MaxPrograms == 2
ProgramNames == {"web", "db"}
CorrelationIds == {"r1", "r2"}
NoParams == [id |-> 0, name |-> ""]

\* the cases of the switch in handleRPC
ReadMethods == {"listPrograms", "validateTerminalToken"}
AwaitedMethods == {"startProgram", "stopProgram", "terminateProgram",
                   "getProgramStatus", "startScreen", "sendCommandToScreen"}
\* start(), stop() and terminate() catch what they throw; the others do not
RejectingMethods == {"getProgramStatus", "startScreen", "sendCommandToScreen"}
KnownMethods == ReadMethods \cup AwaitedMethods
                  \cup {"addProgram", "editProgram", "deleteProgram",
                        "generateTerminalToken"}

\* "login" is the method WebSocketClient.login() sends; the switch has no
\* case for it
Requests ==
    [id : CorrelationIds,
     method : ReadMethods \cup {"generateTerminalToken", "login"},
     params : {NoParams}]
    \cup [id : CorrelationIds, method : {"addProgram"},
          params : [id : {0}, name : ProgramNames]]
    \cup [id : CorrelationIds, method : {"editProgram"},
          params : [id : 0..MaxPrograms, name : {"", "db"}]]
    \cup [id : CorrelationIds, method : {"deleteProgram"} \cup AwaitedMethods,
          params : [id : 0..MaxPrograms, name : {""}]]

\* savePrograms(): the configurations are read at once, writeFile runs later
savePrograms(programs) == writes' = Append(writes, programs)

\* ProgramManager.addProgram(config)
addProgram(cfg) ==
    LET id == manager.made + 1
        programs == Put(manager.programs, id, [name |-> cfg.name])
    IN /\ manager' = [programs |-> programs, made |-> id]
       /\ savePrograms(programs)

\* ProgramManager.updateProgram(id, config)
updateProgram(id, cfg) ==
    IF id \in DOMAIN manager.programs
    THEN LET programs == IF cfg.name # ""
                         THEN [manager.programs EXCEPT ![id].name = cfg.name]
                         ELSE manager.programs
         IN /\ manager' = [manager EXCEPT !.programs = programs]
            /\ savePrograms(programs)
    ELSE UNCHANGED <<manager, writes>>

\* ProgramManager.deleteProgram(id)
deleteProgram(id) ==
    IF id \in DOMAIN manager.programs
    THEN /\ manager' = [manager EXCEPT !.programs = Del(@, {id})]
         /\ savePrograms(Del(manager.programs, {id}))
    ELSE UNCHANGED <<manager, writes>>

\* fs.promises.writeFile of a savePrograms() completes; the calls in flight
\* complete in any order
WriteDone ==
    \E i \in 1..Len(writes) :
        /\ disk' = writes[i]
        /\ writes' = SubSeq(writes, 1, i - 1) \o SubSeq(writes, i + 1, Len(writes))
        /\ UNCHANGED <<registryVars, tokenVars, handshake, ptyInput, programVars,
                       server, pollerVars, thrown, refreshLog, manager, rpcLog, moreVars>>

\* handleRPC(request, socketId) up to its first await: "return", "throw", or
\* "await" when it waits for a method of a Program
handleRPC(req) ==
    IF req.method \in ReadMethods \cup {"addProgram", "generateTerminalToken"}
    THEN "return"
    ELSE IF req.method \in {"editProgram", "deleteProgram"}
    THEN IF req.params.id \in DOMAIN manager.programs THEN "return" ELSE "throw"
    ELSE IF req.method \in AwaitedMethods
    THEN IF req.params.id \in DOMAIN manager.programs THEN "await" ELSE "throw"
    ELSE "throw"

\* the try and the catch of socket.on('rpc'): the callbacks made for a
\* handler that returned or threw
respondMutNoCatch(req, outcome) ==
    IF outcome = "throw" THEN <<>>
    ELSE <<[id |-> req.id, result |-> req.method]>>
respond(req, outcome) ==
    IF outcome = "throw"
    THEN <<[id |-> req.id, error |-> req.method]>>
    ELSE <<[id |-> req.id, result |-> req.method]>>

\* socket.on('rpc', async (request, callback) => ...)
RpcRequest(m, req) ==
    /\ rpcSockets[m] = "connected"
    /\ Len(rpcLog) < MaxRequests
    /\ req.method = "addProgram" => manager.made < MaxPrograms
    /\ req.method = "generateTerminalToken" => issued < MaxTokens
    /\ IF req.method = "addProgram" THEN addProgram(req.params)
       ELSE IF req.method = "editProgram" THEN updateProgram(req.params.id, req.params)
       ELSE IF req.method = "deleteProgram" THEN deleteProgram(req.params.id)
       ELSE UNCHANGED <<manager, writes>>
    /\ IF req.method = "generateTerminalToken" THEN storeToken(m)
       ELSE UNCHANGED <<authTokens, issued>>
    /\ LET outcome == handleRPC(req)
       IN rpcLog' = Append(rpcLog,
              [socket |-> m, request |-> req, outcome |-> outcome,
               pending |-> outcome = "await",
               callbacks |-> IF outcome = "await" THEN <<>> ELSE respond(req, outcome)])
    /\ UNCHANGED <<registryVars, rpcSockets, now, webSocketServer, handshake, ptyInput,
                   programVars, server, pollerVars, thrown, refreshLog, disk, moreVars>>

\* the method the handler awaits returns, or throws
RpcSettle(i, outcome) ==
    /\ rpcLog[i].pending
    /\ outcome = "throw" => rpcLog[i].request.method \in RejectingMethods
    /\ rpcLog' = [rpcLog EXCEPT ![i].pending = FALSE,
                                ![i].outcome = outcome,
                                ![i].callbacks = @ \o respond(rpcLog[i].request, outcome)]
    /\ UNCHANGED <<registryVars, tokenVars, handshake, ptyInput, programVars,
                   server, pollerVars, thrown, refreshLog, manager, writes, disk, moreVars>>

RpcCall == \E m \in RpcSockets, req \in Requests : RpcRequest(m, req)
RpcSettled ==
    \E i \in 1..Len(rpcLog), outcome \in {"return", "throw"} : RpcSettle(i, outcome)

NextRpc ==
    \/ AuthRpcHandshake
    \/ AuthRpcDisconnect
    \/ RpcCall
    \/ RpcSettled
    \/ WriteDone

SpecRpc == Init /\ [][NextRpc]_vars

\* ====================== properties ========================================
Count(log, ev, t) == Len(SelectSeq(log, LAMBDA m : m.ev = ev /\ m.term = t))
Viewers(t) == {s \in Values(inst[t].connections) : sockets[s] = "connected"}
ListIds == {x.id : x \in listTerminals}

\* C1: when a session has been closed explicitly (closeTerminal was called
\* for it) and its process-exit callback has fired, in either order, every
\* connection attached to it has received exactly one terminal_exited and the
\* registry entry was removed exactly once.
C1_ClosedAndExitedNotifiesOnce ==
    \A t \in DOMAIN inst :
        (t \in closeReq /\ ~inst[t].alive) =>
            /\ removals[t] = 1
            /\ \A s \in Viewers(t) : Count(recv[s], "terminal_exited", t) = 1

\* C2: every member of a registered session's connection set is a connection
\* that attached to that session and has not disconnected since.
C2_ConnectionsAreAttachedAndLive ==
    \A t \in terminals :
        \A s \in Values(inst[t].connections) :
            sockets[s] = "connected" /\ <<s, t>> \in DOMAIN attachPoint

\* C3: after N output events a session's buffer holds at most BufferCap
\* chunks, and exactly the last min(N, BufferCap) chunks the PTY produced, in
\* production order.
C3_BufferHoldsLastChunks ==
    \A t \in DOMAIN inst :
        LET n == Len(produced[t])
            k == IF n < BufferCap THEN n ELSE BufferCap
        IN /\ Len(inst[t].buffer) <= BufferCap
           /\ inst[t].buffer = SubSeq(produced[t], n - k + 1, n)

C3_Witness ==
    \E t \in DOMAIN inst :
        /\ Len(produced[t]) > BufferCap + 1
        /\ Len(inst[t].buffer) = BufferCap
        /\ Head(inst[t].buffer) = Chunk(t, Len(produced[t]) - BufferCap + 1)

\* C4: for a viewer attached to a registered session, the output it has been
\* sent for that session since its attach is the buffer as it stood at the
\* attach, in order, followed by every chunk produced since, each once.
OutputSince(s, t) ==
    LET ap == attachPoint[<<s, t>>]
        later == SubSeq(recv[s], ap.at + 1, Len(recv[s]))
        outs == SelectSeq(later, LAMBDA m : m.ev = "output" /\ m.term = t)
    IN Join([i \in 1..Len(outs) |-> outs[i].data])

C4_ReplayThenLiveOutput ==
    \A t \in terminals :
        \A s \in Viewers(t) :
            /\ <<s, t>> \in DOMAIN attachPoint
            /\ LET ap == attachPoint[<<s, t>>]
               IN OutputSince(s, t) =
                      Join(ap.buf) \o Join(SubSeq(produced[t], ap.n + 1, Len(produced[t])))

C4_Witness ==
    \E t \in terminals :
        \E s \in Viewers(t) :
            /\ <<s, t>> \in DOMAIN attachPoint
            /\ Len(attachPoint[<<s, t>>].buf) >= 2
            /\ Len(produced[t]) > attachPoint[<<s, t>>].n
            /\ OutputSince(s, t) = Join(produced[t])

\* C5: createTerminal never spawns a PTY for a shell string that holds a
\* deny-listed destructive pattern: no instance it built runs such a command.
DenyList == {"rm -rf /"}
C5_DangerousShellNeverSpawned ==
    \A t \in DOMAIN inst :
        inst[t].kind = "rpc" => inst[t].initialCommand[1] \notin DenyList

\* C6 (as claimed): an attach request that names a session id not in the
\* registry is answered with an error to the requester and changes neither
\* the registry, nor any instance, nor the socket-to-session mapping.
UnknownIdAttachStep ==
    /\ attachCount' > attachCount
    /\ lastAttach'.terminalId # 0
    /\ lastAttach'.terminalId \notin terminals

C8_FanOutOncePerViewer ==
    [][\A t \in DOMAIN produced :
          (/\ Len(produced'[t]) > Len(produced[t])
           /\ t \in terminals
           /\ Cardinality(Viewers(t)) >= 2)
          => \A s \in Viewers(t) :
                recv'[s] = Append(recv[s],
                                  Msg("output", t, produced'[t][Len(produced'[t])]))]_vars

C8_Witness ==
    \E t \in terminals :
        /\ produced[t] # <<>>
        /\ Cardinality(Viewers(t)) >= 2
        /\ \A s \in Viewers(t) :
              recv[s][Len(recv[s])] = Msg("output", t, produced[t][Len(produced[t])])

\* C9: removing a connection from a session it is not attached to changes no
\* instance (connection sets and buffers), not the registry, and sends
\* nothing to anyone.
LastDetach == detachLog[Len(detachLog)]
C9_DetachOfNonMemberIsNoOp ==
    [][(/\ Len(detachLog') > Len(detachLog)
        /\ LET c == detachLog'[Len(detachLog')]
           IN c.socket \notin Values(inst[c.terminal].connections))
       => /\ inst' = inst
          /\ terminals' = terminals
          /\ recv' = recv]_vars

C9_Witness ==
    /\ detachLog # <<>>
    /\ LastDetach.terminal \in terminals
    /\ LastDetach.socket \notin Values(inst[LastDetach.terminal].connections)
    /\ Viewers(LastDetach.terminal) # {}
    /\ LastDetach.socket \in DOMAIN socketToTerminalMap
    /\ socketToTerminalMap[LastDetach.socket] # LastDetach.terminal

\* C10: removing a viewer, by a disconnect or by a removeClientFromTerminal
\* call, never removes a session from the registry and never ends or kills a
\* process, also when the viewer was the last one.
ViewerRemovalStep ==
    \/ Len(detachLog') > Len(detachLog)
    \/ \E s \in Sockets : sockets[s] = "connected" /\ sockets'[s] = "disconnected"

C10_RemovingViewerKeepsSession ==
    [][ViewerRemovalStep =>
          /\ terminals' = terminals
          /\ \A t \in DOMAIN inst :
                /\ inst'[t].alive = inst[t].alive
                /\ inst'[t].killed = inst[t].killed]_vars

C10_Witness ==
    \E t \in terminals :
        /\ inst[t].kind = "attach"
        /\ inst[t].alive
        /\ inst[t].connections = EmptyMap

\* ---- C11 ------------------------------------------------------------------
\* What the handshake of socket s presented: a token that generateAuthToken
\* had issued and that was still stored and not past its expiry.
ValidHandshake(s) ==
    handshake[s].token # 0 /\ handshake[s].issued /\ handshake[s].unexpired

\* Traces of a request of socket s in the registry
Processed(s) ==
    \/ s \in DOMAIN socketToTerminalMap
    \/ \E t \in DOMAIN inst : s \in Values(inst[t].connections)
    \/ \E i \in 1..Len(ptyInput) : ptyInput[i].socket = s
    \/ (lastAttach # <<>> /\ lastAttach.socket = s)
    \/ \E p \in DOMAIN attachPoint : p[1] = s

\* C11: a terminal connection whose handshake presented no token, or a token
\* that is unknown or expired, is refused with the error of the handshake
\* middleware, never becomes connected, and no attach, input or close request
\* of it leaves a trace in the terminal registry.
C11_InvalidHandshakeIsRefused ==
    \A s \in DOMAIN handshake :
        ~ValidHandshake(s) =>
            /\ sockets[s] = "refused"
            /\ \E e \in {ErrNoToken, ErrNoValidator, ErrInvalid} :
                   recv[s] = <<Msg("connect_error", 0, e)>>
            /\ ~Processed(s)

\* An expired token was presented and refused while another connection, which
\* presented its token in time, is attached to a session.
C11_Witness ==
    \E s, v \in DOMAIN handshake :
        /\ handshake[s].issued /\ ~handshake[s].unexpired
        /\ sockets[s] = "refused"
        /\ recv[s] = <<Msg("connect_error", 0, ErrInvalid)>>
        /\ ValidHandshake(v)
        /\ v \in DOMAIN socketToTerminalMap

\* ---- C12 ------------------------------------------------------------------
\* C12: in every reachable state of a Program, status = running implies that
\* a pid is set.
C12_RunningHasPid == program.status = "running" => program.pid # 0

\* ---- C13 ------------------------------------------------------------------
\* A step in which the session check of a monitor pass or of a pid
\* resolution came back and reported the session as not there.
SessionFoundInactive ==
    /\ call.pc \in {"fpp_screen", "monitor_check", "monitor_recheck"}
    /\ call'.pc # call.pc
    /\ ~program'.screenActive

\* C13: whenever a monitor pass or a pid resolution finds the screen session
\* inactive, that pass ends there with status = stopped and no pid, whatever
\* pid and status the program held before.
C13_InactiveSessionStops ==
    [][SessionFoundInactive =>
          /\ program'.status = "stopped"
          /\ program'.pid = 0
          /\ call'.pc \in {"fpp_resolved", "done"}]_vars

\* A monitor pass of a program recorded as running with a pid has found the
\* session gone.
C13_Witness ==
    /\ call.method = "monitor" /\ call.pc = "done"
    /\ call.pre.status = "running" /\ call.pre.pid # 0
    /\ ~program.screenActive
    /\ program.status = "stopped" /\ program.pid = 0

\* ---- C14 ------------------------------------------------------------------
\* start() has returned after sending the command into the session
StartedByCommand ==
    /\ call.method = "start" /\ call.pc = "done"
    /\ \E i \in 1..Len(call.sent) : call.sent[i].kind = "command"

\* C14: start() ends with status = running only if a pid was resolved after
\* the command was sent; if none was resolved it ends with status = error.
C14_StartRunningOnlyWithPid ==
    StartedByCommand =>
        /\ program.status = "running" => program.pid # 0
        /\ program.pid = 0 => program.status = "error"

\* ---- C15 ------------------------------------------------------------------
\* C15: when an exec of the launch (startScreen or sendCommandToScreen)
\* throws, start() returns false with status = error; and start() returns
\* true exactly when the status it leaves is running.
C15_StartResultMatchesStatus ==
    (call.method = "start" /\ call.pc = "done") =>
        /\ call.raised # "" => (call.ret = "false" /\ program.status = "error")
        /\ call.ret = "true" <=> program.status = "running"

\* The exec that sends the command threw, in a session that start() had found.
C15_Witness ==
    /\ call.method = "start" /\ call.pc = "done"
    /\ call.raised = "send_command"
    /\ program.screenActive
    /\ call.ret = "false" /\ program.status = "error"

\* ---- C16 ------------------------------------------------------------------
Signals == {"SIGINT", "SIGHUP"}
\* what a method has sent of the given kinds so far
SentOf(c, kinds) == SelectSeq(c.sent, LAMBDA m : m.kind \in kinds)

\* The step of stop() that goes on with a pid for the signal: the entry of
\* stop() with a pid set, or the return of its pid resolution with a pid.
StopWithPidStep ==
    /\ program.stopMethod \in Signals
    /\ program.pid # 0
    /\ \/ call.pc = "done" /\ call'.method = "stop" /\ call'.pc # "done"
       \/ call.pc = "done" /\ call'.method = "stop" /\ call'.raised = "kill"
       \/ call.pc = "fpp_resolved" /\ call.after = "stop_found" /\ call' # call
\* The step of stop() in which its pid resolution has come back without pid.
StopWithoutPidStep ==
    /\ call.pc = "fpp_resolved" /\ call.after = "stop_found" /\ call' # call
    /\ program.pid = 0

DefaultStopSignalled ==
    /\ config.stopMethod = ""
    /\ call.method = "stop"
    /\ call.pc = "stop_wait"

StopVerifyStep ==
    /\ call.pc = "fpp_resolved" /\ call.after = "stop_verify"
    /\ call'.pc = "done"

\* C18 as stated: after the signal and the grace delay, with no pid resolved
\* stop() returns true with status = stopped and no pid; with a pid still
\* resolved it returns false and status and pid are as before the call.
C18_FailedStopLeavesStateAsBefore ==
    [][StopVerifyStep =>
          IF program.pid = 0
          THEN /\ call'.ret = "true"
               /\ program'.status = "stopped" /\ program'.pid = 0
          ELSE /\ call'.ret = "false"
               /\ program'.status = call.pre.status
               /\ program'.pid = call.pre.pid]_vars

\* C18, amended: after the signal and the grace delay, with no pid resolved
\* stop() returns true with status = stopped and no pid; with a pid resolved
\* it returns false and leaves what that resolution has set: status running
\* with the pid found now, which need not be the pid or status from before
\* the call.
C18_FailedStopKeepsResolvedState ==
    [][StopVerifyStep =>
          IF program.pid = 0
          THEN /\ call'.ret = "true"
               /\ program'.status = "stopped" /\ program'.pid = 0
          ELSE /\ call'.ret = "false"
               /\ program' = program
               /\ program'.status = "running"]_vars

\* A stop() signalled the pid it was called with, found another pid after
\* the grace delay and returned false.
C18_Witness ==
    /\ call.method = "stop" /\ call.pc = "done" /\ call.raised = ""
    /\ call.ret = "false"
    /\ call.pre.pid # 0
    /\ call.sent = <<[kind |-> program.stopMethod, pid |-> call.pre.pid]>>
    /\ program.pid # 0 /\ program.pid # call.pre.pid
    /\ program.status = "running"

\* ---- C19 ------------------------------------------------------------------
TerminateReturned == call.method = "terminate" /\ call.pc = "done"
\* terminate() was thrown into its catch before its lines 285-287
TerminateRaisedEarly == call.raised \in {"terminate_check", "terminate_quit"}

ProgramStep == <<program, call>>' # <<program, call>>

\* C21: every step of start, stop, terminate, monitor or of a pid resolution
\* that changes the status calls the status-change callback exactly once,
\* with the state the program has after the change; a step that leaves the
\* status value as it was does not call it.
C21_StatusChangeNotifiesOnce ==
    [][ProgramStep =>
          LET before == IF call.pc = "done" THEN <<>> ELSE program.notified
          IN IF program'.status # program.status
             THEN program'.notified = Append(before, getState(program'))
             ELSE program'.notified = before]_vars

\* start() of a program recorded as running found no process, which was
\* reported as stopped, launched the command and reported running; it went
\* through steps that set the status it already had.
C21_Witness ==
    /\ call.method = "start" /\ call.pc = "done"
    /\ call.pre.status = "running"
    /\ Len(program.notified) = 2
    /\ program.notified[1].status = "stopped" /\ program.notified[1].pid = 0
    /\ program.notified[2] = getState(program)
    /\ program.status = "running"

\* ---- C22 ------------------------------------------------------------------
\* The sessions the shutdown drain has killed: killed, and never closed by a
\* closeTerminal call
Drained == {t \in DOMAIN inst : inst[t].killed /\ t \notin closeReq}

\* C22: the shutdown drain kills every live session and does not complete,
\* and the process does not exit, until the exit of every such session's
\* process has been acknowledged; when it has completed the registry is empty.
C22_DrainAwaitsEveryExit ==
    server # "up" =>
        /\ terminals = {}
        /\ \A t \in DOMAIN inst : inst[t].alive => inst[t].killed
        /\ \A t \in Drained : ~inst[t].alive

\* ---- C23 ------------------------------------------------------------------
\* C23: a request whose handler has returned or thrown has got exactly one
\* response, and none before; the response carries the id of the request and
\* holds an error and no result when the handler threw or the method is
\* unknown, a result and no error otherwise.
C23_OneResponsePerRequest ==
    \A i \in 1..Len(rpcLog) :
        LET e == rpcLog[i]
        IN IF e.pending THEN e.callbacks = <<>>
           ELSE /\ Len(e.callbacks) = 1
                /\ e.callbacks[1].id = e.request.id
                /\ DOMAIN e.callbacks[1] =
                      IF e.outcome = "throw" \/ e.request.method \notin KnownMethods
                      THEN {"id", "error"}
                      ELSE {"id", "result"}

\* Two requests under the same id: an awaited method that threw after an
\* unknown method, both answered with an error of their own.
C23_Witness ==
    /\ Len(rpcLog) = 2
    /\ rpcLog[1].request.method = "login"
    /\ rpcLog[2].request.method = "getProgramStatus"
    /\ rpcLog[1].request.id = rpcLog[2].request.id
    /\ ~rpcLog[2].pending /\ rpcLog[2].outcome = "throw"
    /\ \A i \in 1..2 : Len(rpcLog[i].callbacks) = 1 /\ "error" \in DOMAIN rpcLog[i].callbacks[1]

\* ---- C24 ------------------------------------------------------------------
\* The step in which the process of registered session t, which nobody has
\* killed, exits and its exit callback runs
OwnExitStep(t) ==
    /\ t \in terminals
    /\ inst[t].alive /\ ~inst[t].killed
    /\ ~inst'[t].alive

\* C24: when the process of a session exits on its own, a final diagnostic
\* line is appended to the session's buffer, every attached connection is
\* sent terminal_exited, the session leaves the registry and the session
\* list change is announced, whichever way the session was created.
C24_OwnExitNotifiesEveryViewer ==
    [][\A t \in DOMAIN inst :
          OwnExitStep(t) =>
              /\ inst'[t].buffer = onData(inst[t].buffer, ExitLine)
              /\ \A s \in Viewers(t) :
                    Count(recv'[s], "terminal_exited", t)
                        = Count(recv[s], "terminal_exited", t) + 1
              /\ t \notin terminals'
              /\ listChanged' = listChanged + 1]_vars

\* ---- C25 ------------------------------------------------------------------
\* the entries socket s holds in the connections of session t
Memberships(i, t, s) == {k \in DOMAIN i[t].connections : i[t].connections[k] = s}

\* An attach request of a socket for a registered session it is a member of
ReattachStep ==
    /\ attachCount' > attachCount
    /\ lastAttach'.terminalId \in terminals
    /\ Memberships(inst, lastAttach'.terminalId, lastAttach'.socket) # {}

\* C25: an attach request from a connection that is a member of the session
\* already is answered with the buffer once more and leaves the connection
\* a member exactly once; each chunk the session's pty emits is then sent
\* to each of its members exactly once.
C25_ReattachKeepsOneMembership ==
    [][/\ ReattachStep =>
             LET s == lastAttach'.socket
                 t == lastAttach'.terminalId
             IN /\ recv'[s] = recv[s] \o <<Msg("output", t, replay(inst[t].buffer)),
                                           Msg("connected", t, "")>>
                /\ Cardinality(Memberships(inst', t, s)) = 1
       /\ \A t \in terminals :
             Len(produced'[t]) > Len(produced[t]) =>
                 \A s \in Viewers(t) :
                     /\ Cardinality(Memberships(inst, t, s)) = 1
                     /\ Len(recv'[s]) = Len(recv[s]) + 1
                     /\ recv'[s][Len(recv'[s])].data = produced'[t][Len(produced'[t])]]_vars

\* A socket attached to the session twice, the second time under another
\* client id and with output in the buffer, and has since been sent one more
\* chunk once.
C25_Witness ==
    \E t \in terminals :
        \E s \in Viewers(t) :
            /\ Count(recv[s], "connected", t) = 2
            /\ Memberships(inst, t, s) = {3 - s}
            /\ attachPoint[<<s, t>>].n = 1
            /\ Len(produced[t]) = 2
            /\ recv[s][Len(recv[s])] = Msg("output", t, Chunk(t, 2))
            /\ Count(recv[s], "output", t) = 3

\* ---- C26 ------------------------------------------------------------------
\* C26: an input event is written to a pty only if its sender is, at that
\* moment, a member of the connections of the registered session the socket
\* is mapped to, and then to the pty of that session; otherwise nothing is
\* written.
C26_InputOnlyFromMembers ==
    \A i \in 1..Len(ptyInput) :
        ptyInput[i].written =>
            /\ ptyInput[i].member
            /\ ptyInput[i].terminal \in DOMAIN inst

\* The input of a member was written, while another connected socket, which
\* an attach under its client id had displaced from the session, is neither
\* member nor mapped.
C26_Witness ==
    \E i \in 1..Len(ptyInput) :
        /\ ptyInput[i].written /\ ptyInput[i].member
        /\ ptyInput[i].terminal \in terminals
        /\ \E d \in Sockets :
              /\ d # ptyInput[i].socket
              /\ sockets[d] = "connected"
              /\ <<d, ptyInput[i].terminal>> \in DOMAIN attachPoint
              /\ d \notin Values(inst[ptyInput[i].terminal].connections)
              /\ d \notin DOMAIN socketToTerminalMap

\* ---- C27 ------------------------------------------------------------------
\* the chunks socket s was sent for session t after the replay of its attach
LiveChunks(s, t) ==
    LET ap == attachPoint[<<s, t>>]
        later == SubSeq(recv[s], ap.at + 2, Len(recv[s]))
        outs == SelectSeq(later, LAMBDA m : m.ev = "output" /\ m.term = t)
    IN [i \in 1..Len(outs) |-> outs[i].data]

\* the step in which the pty of session t emits a chunk
OutputStep(t) == Len(produced'[t]) > Len(produced[t])

\* C27: the chunks a connection attached to a session is sent are the chunks
\* the pty has produced since the attach, in the order of production; and
\* the step that sends a chunk to the attached connections is the step that
\* appends it to the buffer.
C27_ChunksInProductionOrder ==
    /\ [](\A t \in terminals :
            \A s \in Viewers(t) :
                <<s, t>> \in DOMAIN attachPoint =>
                    LiveChunks(s, t) = SubSeq(produced[t], attachPoint[<<s, t>>].n + 1,
                                              Len(produced[t])))
    /\ [][\A t \in DOMAIN produced :
             OutputStep(t) =>
                 LET data == produced'[t][Len(produced'[t])]
                 IN /\ inst'[t].buffer = onData(inst[t].buffer, data)
                    /\ t \in terminals =>
                          \A s \in Viewers(t) :
                              recv'[s] = Append(recv[s], Msg("output", t, data))]_vars

\* A connection that attached after the first chunk has been sent the second
\* and the third, in that order, and the buffer holds all three.
C27_Witness ==
    \E t \in terminals :
        \E s \in Viewers(t) :
            /\ <<s, t>> \in DOMAIN attachPoint
            /\ attachPoint[<<s, t>>].n = 1
            /\ LiveChunks(s, t) = <<Chunk(t, 2), Chunk(t, 3)>>
            /\ inst[t].buffer = <<Chunk(t, 1), Chunk(t, 2), Chunk(t, 3)>>

\* ---- C28 ------------------------------------------------------------------
\* C28: when the emit of an output chunk to one attached connection fails,
\* every other attached connection of the session is still sent the chunk,
\* and the session's buffer and connections are what they are without the
\* failure: the buffer with the chunk appended, the connections as before.
C28_FailedSendIsIsolated ==
    [][\A t \in terminals :
          (OutputStep(t) /\ thrown' # {}) =>
              /\ \A s \in Viewers(t) \ thrown' :
                    recv'[s] = Append(recv[s], Msg("output", t, produced'[t][Len(produced'[t])]))
              /\ \A s \in thrown' : recv'[s] = recv[s]
              /\ inst'[t].connections = inst[t].connections
              /\ inst'[t].buffer = onData(inst[t].buffer, produced'[t][Len(produced'[t])])
              /\ terminals' = terminals]_vars

\* The emit to one of two viewers threw; the other has the chunk, and both
\* are still attached.
C28_Witness ==
    \E t \in terminals :
        /\ Cardinality(Viewers(t)) = 2
        /\ Cardinality(thrown) = 1
        /\ produced[t] # <<>>
        /\ \A s \in Viewers(t) :
              (recv[s][Len(recv[s])] = Msg("output", t, produced[t][Len(produced[t])]))
                  <=> s \notin thrown

\* ---- C29 ------------------------------------------------------------------
\* C29: a refresh request of an attached connection for its session sends
\* the session's current buffer to that connection as a refresh event, and
\* leaves the buffer, the connections and the registry as they were.
C29_RefreshResendsBuffer ==
    [][(Len(refreshLog') = Len(refreshLog) + 1) =>
          LET q == refreshLog'[Len(refreshLog')]
          IN (q.id \in terminals /\ q.socket \in Viewers(q.id)) =>
                /\ recv'[q.socket] = Append(recv[q.socket],
                                            Msg("refresh", q.id, inst[q.id].buffer))
                /\ inst' = inst
                /\ terminals' = terminals
                /\ socketToTerminalMap' = socketToTerminalMap]_vars

\* ---- C30 ------------------------------------------------------------------
\* C30: every poller tick starts a query for each registered session. When
\* the query of a registered session resolves a name that differs from the
\* stored programName, programName becomes that name and every attached
\* connection of the session is sent programNameChanged with it; when the
\* query fails or resolves the stored name, programName is unchanged and
\* nothing is sent.
C30_PollerUpdatesOnChangeOnly ==
    [][/\ (polls' = polls + 1) =>
             \A t \in terminals : [terminal |-> t, poll |-> polls'] \in queries'
       /\ (\E q \in queries : queries' = queries \ {q}) =>
             LET t == lastQuery'[1].terminal
                 res == getForegroundProcessName(lastQuery'[1].out)
             IN (t \in terminals) =>
                   IF ~res.null /\ res.name # "" /\ res.name # inst[t].programName
                   THEN /\ inst'[t].programName = res.name
                        /\ \A s \in Sockets :
                              recv'[s] = IF s \in Viewers(t)
                                         THEN Append(recv[s], Msg("programNameChanged", t, res.name))
                                         ELSE recv[s]
                   ELSE inst' = inst /\ recv' = recv]_vars

\* Two viewers of a registered session were told the name a query resolved,
\* and a later query for it is still in flight.
C30_Witness ==
    \E t \in terminals :
        /\ inst[t].programName = "vim"
        /\ Cardinality(Viewers(t)) = 2
        /\ \A s \in Viewers(t) :
              /\ recv[s] # <<>>
              /\ recv[s][Len(recv[s])] = Msg("programNameChanged", t, "vim")
        /\ queries # {}

\* ---- C31 ------------------------------------------------------------------
\* a ps pipeline of findProcessPid is about to run, or monitor is about to
\* probe the pid it holds with process.kill(pid, 0)
PidProbePending ==
    \/ call.pc \in {"fpp_tty", "fpp_command", "fpp_any"}
    \/ call.pc = "fpp_resolved" /\ call.after = "monitor_found" /\ program.pid # 0

\* C31: the first thing a monitor() pass waits for is the session check, a
\* pass that finds no session returns without anything else, and a pid
\* resolution or a pid liveness probe of a pass runs only when the last
\* session check of that pass found the session alive.
C31_MonitorChecksSessionFirst ==
    /\ []((call.method = "monitor" /\ PidProbePending) => program.screenActive)
    /\ [][/\ (call.pc = "done" /\ call'.method = "monitor" /\ call'.pc # "done")
               => call'.pc = "monitor_check"
          /\ (call.pc = "monitor_check" /\ call' # call /\ ~program'.screenActive)
               => call'.pc = "done"]_vars

\* A pass found the session alive, resolved a pid and is about to probe it.
C31_Witness ==
    /\ call.method = "monitor"
    /\ call.pc = "fpp_resolved"
    /\ call.after = "monitor_found"
    /\ program.pid # 0
    /\ program.screenActive

\* ---- C32 ------------------------------------------------------------------
\* C32: a create call whose spawn fails is rejected with an error, and the
\* registry, every session's state, the socket-to-session mapping and the
\* number of session-list-changed events are what they were before the call.
C32_FailedSpawnLeavesNoTrace ==
    [][(Len(spawns') = Len(spawns) + 1) =>
          /\ spawns'[Len(spawns')].result = "throw"
          /\ terminals' = terminals
          /\ inst' = inst
          /\ socketToTerminalMap' = socketToTerminalMap
          /\ listChanged' = listChanged]_vars

\* ---- C33 ------------------------------------------------------------------
\* C33: whenever no write of savePrograms is in flight, the program list in
\* the configuration file is the list of the programs the manager holds.
C33_DiskMatchesMemoryWhenQuiet ==
    (writes = <<>>) => (disk = manager.programs)

\* ---- C34 ------------------------------------------------------------------
\* C34: a socket that socketToTerminalMap maps to a session id is a member
\* of the connections of that session, and the session is in the registry.
C34_MappingPointsToMembership ==
    \A s \in DOMAIN socketToTerminalMap :
        LET t == socketToTerminalMap[s]
        IN /\ t \in terminals
           /\ s \in Values(inst[t].connections)

\* ---- C35 ------------------------------------------------------------------
\* C35: when a query of the poller comes back for a session that has left
\* the registry since the query was started, no connection is sent anything
\* and no session still in the registry changes.
C35_LateQueryIsDropped ==
    [][(\E q \in queries : queries' = queries \ {q}) =>
          (lastQuery'[1].terminal \notin terminals =>
              /\ recv' = recv
              /\ \A u \in terminals : inst'[u] = inst[u])]_vars

\* ---- C36 ------------------------------------------------------------------
\* a monitor pass is in progress that began before the terminate() next to it
\* returned
StalePass ==
    /\ call.method = "monitor" /\ call.pc # "done"
    /\ pass.method = "terminate" /\ pass.pc = "done"

\* C36: once terminate() has returned, no callback of a monitor pass that
\* began before the return changes the status or the pid of the program.
C36_ReturnedTerminateIsFinal ==
    [][(StalePass /\ call' # call /\ pass' = pass) =>
          (program'.status = program.status /\ program'.pid = program.pid)]_vars

\* ---- C37 ------------------------------------------------------------------
\* the stored entry validateAuthToken finds for a token
StoredToken(token) ==
    authTokens[CHOOSE i \in 1..Len(authTokens) : authTokens[i].token = token]

\* C37: validateAuthToken(t) is true only for a token that was
\* issued, fewer than TokenTtl minutes ago, to a connection that has not
\* disconnected since.
C37_ValidOnlyBeforeFiveMinutes ==
    \A token \in 0..(MaxTokens + 1) :
        validateAuthToken(authTokens, token, now) =>
            /\ token \in 1..issued
            /\ now - StoredToken(token).createdAt < TokenTtl
            /\ rpcSockets[StoredToken(token).socketId] = "connected"

\* ---- C38 ------------------------------------------------------------------
ActiveTabs == {i \in 1..Len(tabsManager.tabs) : tabsManager.tabs[i].active}

\* C38: after any sequence of addTab, setActiveTab and closeTab exactly one
\* tab is active, activeTabId is the id of that tab, and the list tab the
\* constructor made is still the first tab, not closable.
C38_OneActiveTabAndListTabStays ==
    /\ Cardinality(ActiveTabs) = 1
    /\ \A i \in ActiveTabs : tabsManager.tabs[i].id = tabsManager.activeTabId
    /\ tabsManager.tabs[1] = [TabsManagerClass.tabs[1] EXCEPT !.active = (1 \in ActiveTabs)]

\* ---- C39 ------------------------------------------------------------------
\* the terminal tabs of instance id after the step
TerminalTabsOf(id) ==
    {i \in 1..Len(tabsManager'.tabs) :
        tabsManager'.tabs[i].type = "terminal" /\ tabsManager'.tabs[i].terminal = id}

\* C39: when updateTerminalInstancesFromServer() has worked through the list
\* it fetched, the ids of the client's instances are the ids of that list,
\* each of them has exactly one terminal tab, and no other id has one.
C39_InstancesAndTabsMatchFetchedList ==
    [][(terminalManager.fetched # <<>> /\ terminalManager'.fetched = <<>>) =>
          LET list == terminalManager.fetched[1]
          IN /\ Range(terminalManager'.instances) = list
             /\ Len(terminalManager'.instances) = Cardinality(list)
             /\ \A id \in 1..(MaxTerminals + 1) :
                   Cardinality(TerminalTabsOf(id)) = IF id \in list THEN 1 ELSE 0]_vars

\* A reconciliation took one instance and its tab away and brought another
\* instance and its tab in.
C39_Witness ==
    /\ terminalManager.applied = <<{2}>>
    /\ terminalManager.removed = {1}
    /\ terminalManager.instances = <<2>>
    /\ \E i \in 1..Len(tabsManager.tabs) : tabsManager.tabs[i].terminal = 2
    /\ \A i \in 1..Len(tabsManager.tabs) : tabsManager.tabs[i].terminal # 1

====
